---- MODULE Spec2Model ----
(***************************************************************************)
(* Agro-AI: the location-keyed offline cache of the crop recommendation    *)
(* screens and the schema store of DatabaseService.                        *)
(*                                                                         *)
(* Coordinates are integers in units of 1e-5 degree, so that the rounding  *)
(* to 4 decimals done by Number.prototype.toFixed(4) is visible.  JSON     *)
(* values are trees, JSON text is a sequence of tokens; JSON.stringify and *)
(* JSON.parse convert between the two.                                     *)
(***************************************************************************)
EXTENDS Integers, Sequences, FiniteSets, TLC

VARIABLES
    mounted,          \* which recommendation component is mounted: "screen" | "app"
    pc,               \* position of the getRecommendations invocation
    loading,          \* useState(false)
    recommendations,  \* useState(null)
    location,         \* useState(null): [set, latitude, longitude]
    inv,              \* locals and observations of the current/last invocation
    weather_cache,    \* rows of table weather_cache
    now,              \* Date.now(), in whole days since the start
    calls,            \* number of getRecommendations invocations started
    origin,           \* history: for each cache row id, what setRecommendations
                      \* showed online in the invocation that wrote the row
    keyIn,            \* key derivation on its own: two coordinate pairs
    keyOut,           \* the key written for the first, the key read for the second
    cacheLog,         \* the cache on its own: calls made so far, with results
    appVersion,       \* which DatabaseService runs: 1 (no language column) | 2
    db,               \* module-level handle `db`: NullHandle or the handle opened
    ipc,              \* position of initialize(); "ready" once the store is in use
    schema,           \* the columns of each table, <<>> for a table that does not exist
    user_profile,     \* rows of table user_profile
    user_profile_new, \* rows of the shadow table of the migration
    disease_history,  \* rows of table disease_history
    initCall,         \* history: the store when the last initialize() began, and
                      \* what that call did
    migrationSteps,   \* history: how often each migration statement ran on this store
    storeOps,         \* calls of DatabaseService functions so far
    lastCall,         \* history: the last profile or detection call and its result
    registered,       \* history: per phone number, the language argument of the
                      \* last createUserProfile
    boot,             \* the bootstrap of the process: initializeApp and the mount
                      \* effects of the recommendation components
    getters,          \* getDb: for each caller, where its call stands and the
                      \* handle it was given
    opened,           \* getDb: calls of SQLite.openDatabaseAsync made so far
    writers,          \* overlapping getRecommendations invocations, online: the
                      \* position, key and fetched data of each
    applied,          \* history: the writers in the order their cache writes
                      \* were applied
    asyncStorage,     \* integration guide: AsyncStorage, per key the item stored
    clock,            \* integration guide: Date.now(), in milliseconds
    guide,            \* integration guide: the last getCropRecommendations call
    cut,              \* history: the initialize() call that the end of its process
                      \* interrupted
    overlap,          \* initialize() calls in flight at the same time: where each
                      \* stands, and the rows the table had before them
    auth,             \* AuthProvider: the userToken state, the persisted
                      \* 'userToken' item and the calls of the context
    forms,            \* login and registration screens: the handler in flight
    dataset,          \* DataSetService.fetchDataForML: the call, its two requests
                      \* and what it gave
    advice            \* MLService.recommendCrops: the last call and its result

orchVars == <<mounted, pc, loading, recommendations, location, inv,
              weather_cache, now, calls, origin>>
keyVars == <<keyIn, keyOut>>
storeVars == <<appVersion, db, ipc, schema, user_profile, user_profile_new,
               disease_history, initCall, migrationSteps, storeOps,
               lastCall, registered>>
connVars == <<getters, opened>>
raceVars == <<writers, applied>>
guideVars == <<asyncStorage, clock, guide>>
olderVars == <<boot, connVars, raceVars, guideVars>>
svcVars == <<dataset, advice>>
restVars == <<cut, overlap, auth, forms, svcVars>>
moreVars == <<olderVars, restVars>>
vars == <<orchVars, keyVars, cacheLog, storeVars, moreVars>>

----------------------------------------------------------------------------
(* Bounds *)

MaxCalls == 3
MaxDays == 2
MaxOps == 4
MaxStoreOps == 6
MaxGetDbCalls == 5
MaxGuideCalls == 2

----------------------------------------------------------------------------
(* JSON values and JSON text *)

Node(tag, atom, kids) == [tag |-> tag, atom |-> atom, kids |-> kids]
JsUndefined == Node("undefined", "", <<>>)
JsNull == Node("null", "", <<>>)
Num(s) == Node("num", s, <<>>)
Str(s) == Node("str", s, <<>>)
Arr(elems) == Node("arr", "", elems)
Member(name, value) == Node("member", name, <<value>>)
Obj(members) == Node("obj", "", members)

Tok(k, s) == [k |-> k, s |-> s]

RECURSIVE JSONstringify(_)
RECURSIVE StringifyKids(_, _)
\* the texts of kids[i..], separated by commas
StringifyKids(kids, i) ==
    IF i > Len(kids) THEN <<>>
    ELSE LET one == IF kids[i].tag = "member"
                    THEN <<Tok("str", kids[i].atom), Tok(":", "")>>
                         \o JSONstringify(kids[i].kids[1])
                    ELSE JSONstringify(kids[i])
         IN  IF i = Len(kids) THEN one
             ELSE one \o <<Tok(",", "")>> \o StringifyKids(kids, i + 1)

JSONstringify(v) ==
    CASE v.tag = "num"  -> <<Tok("num", v.atom)>>
      [] v.tag = "str"  -> <<Tok("str", v.atom)>>
      [] v.tag = "null" -> <<Tok("null", "")>>
      [] v.tag = "arr"  -> <<Tok("[", "")>> \o StringifyKids(v.kids, 1) \o <<Tok("]", "")>>
      [] v.tag = "obj"  -> <<Tok("{", "")>> \o StringifyKids(v.kids, 1) \o <<Tok("}", "")>>

ParseFail == [ok |-> FALSE, val |-> JsUndefined, next |-> 0]
ParseOk(v, n) == [ok |-> TRUE, val |-> v, next |-> n]

RECURSIVE ParseValue(_, _)
RECURSIVE ParseElems(_, _, _)
RECURSIVE ParseMembers(_, _, _)

\* elements of an array from t[i] on, after "[" or after a comma
ParseElems(t, i, acc) ==
    LET r == ParseValue(t, i) IN
    IF ~r.ok \/ r.next > Len(t) THEN ParseFail
    ELSE IF t[r.next].k = "]" THEN ParseOk(Arr(Append(acc, r.val)), r.next + 1)
    ELSE IF t[r.next].k = "," THEN ParseElems(t, r.next + 1, Append(acc, r.val))
    ELSE ParseFail

\* members of an object from t[i] on, after "{" or after a comma
ParseMembers(t, i, acc) ==
    IF i + 1 > Len(t) \/ t[i].k # "str" \/ t[i + 1].k # ":" THEN ParseFail
    ELSE LET r == ParseValue(t, i + 2) IN
         IF ~r.ok \/ r.next > Len(t) THEN ParseFail
         ELSE IF t[r.next].k = "}"
              THEN ParseOk(Obj(Append(acc, Member(t[i].s, r.val))), r.next + 1)
         ELSE IF t[r.next].k = ","
              THEN ParseMembers(t, r.next + 1, Append(acc, Member(t[i].s, r.val)))
         ELSE ParseFail

ParseValue(t, i) ==
    IF i > Len(t) THEN ParseFail
    ELSE CASE t[i].k = "num"  -> ParseOk(Num(t[i].s), i + 1)
           [] t[i].k = "str"  -> ParseOk(Str(t[i].s), i + 1)
           [] t[i].k = "null" -> ParseOk(JsNull, i + 1)
           [] t[i].k = "["    ->
                IF i + 1 <= Len(t) /\ t[i + 1].k = "]" THEN ParseOk(Arr(<<>>), i + 2)
                ELSE ParseElems(t, i + 1, <<>>)
           [] t[i].k = "{"    ->
                IF i + 1 <= Len(t) /\ t[i + 1].k = "}" THEN ParseOk(Obj(<<>>), i + 2)
                ELSE ParseMembers(t, i + 1, <<>>)
           [] OTHER -> ParseFail

\* JSON.parse: [ok |-> FALSE] stands for the SyntaxError it throws
JSONparse(t) ==
    LET r == ParseValue(t, 1) IN
    IF r.ok /\ r.next = Len(t) + 1 THEN [ok |-> TRUE, val |-> r.val]
    ELSE [ok |-> FALSE, val |-> JsUndefined]

\* bodies the recommendation server answers with
PayloadTemp30 == Obj(<<Member("temp", Num("30"))>>)
PayloadTemp28 == Obj(<<Member("temp", Num("28"))>>)
PayloadNested ==
    Obj(<<Member("soil", Obj(<<Member("ph", Num("6"))>>)),
          Member("recommendations", Arr(<<Str("rice"), Str("maize")>>))>>)
Payloads == {PayloadTemp30, PayloadTemp28, PayloadNested}

----------------------------------------------------------------------------
(* Cache key: `${latitude.toFixed(4)},${longitude.toFixed(4)}` *)

Abs(x) == IF x < 0 THEN 0 - x ELSE x

\* Number.prototype.toFixed(4) of c * 1e-5: the sign of a negative number, then
\* the nearest multiple of 1e-4 of its magnitude, printed as whole "." 4 digits
ToFixed4(c) ==
    LET n == (Abs(c) + 5) \div 10
    IN  [neg |-> c < 0, whole |-> n \div 10000, frac |-> n % 10000]

Coord(lat, lon) == [latitude |-> lat, longitude |-> lon]

ScreenOnlineKey(coords) == <<ToFixed4(coords.latitude), ToFixed4(coords.longitude)>>
\* as ScreenOfflineKey, but with toFixed(3)
ScreenOfflineKeyThreeDecimals(coords) ==
    LET three(c) == [neg |-> c < 0, whole |-> ((Abs(c) + 50) \div 100) \div 1000,
                     frac |-> (((Abs(c) + 50) \div 100) % 1000) * 10]
    IN  <<three(coords.latitude), three(coords.longitude)>>
ScreenOfflineKey(coords) == <<ToFixed4(coords.latitude), ToFixed4(coords.longitude)>>
AppOnlineKey(coords) == <<ToFixed4(coords.latitude), ToFixed4(coords.longitude)>>
AppOfflineKey(coords) == <<ToFixed4(coords.latitude), ToFixed4(coords.longitude)>>

\* positions the device reports to the recommendation components
Coords ==
    { Coord(1768680, 8321850), Coord(1768684, 8321853), Coord(1768686, 8321850) }

NoKey == <<ToFixed4(0), ToFixed4(0)>>

----------------------------------------------------------------------------
(* Keyed cache: table weather_cache (id, location UNIQUE, data, timestamp) *)

CacheRow(id, key, text, t) ==
    [id |-> id, location |-> key, data |-> text, timestamp |-> t]

SetMax(S) == CHOOSE m \in S : \A x \in S : x <= m

\* INTEGER PRIMARY KEY with no value given: one more than the largest rowid
NextRowId(table) == IF table = {} THEN 1 ELSE SetMax({r.id : r \in table}) + 1

\* as WeatherCacheConflicts, but location is not declared UNIQUE
PrimaryKeyConflicts(table, row) == {r \in table : r.id = row.id}

\* rows that collide with `row` on PRIMARY KEY (id) or UNIQUE (location)
WeatherCacheConflicts(table, row) ==
    {r \in table : r.id = row.id \/ r.location = row.location}

\* INSERT OR REPLACE INTO weather_cache (location, data, timestamp)
cacheRecommendations(table, key, text, t) ==
    LET row == CacheRow(NextRowId(table), key, text, t)
    IN  (table \ WeatherCacheConflicts(table, row)) \cup {row}

\* as CacheArgument, but the object itself is passed and bound as its string
\* form "[object Object]"
CacheArgumentUnserialized(data) == <<Tok("ident", "[object Object]")>>

\* the second argument of cacheRecommendations at its call sites
CacheArgument(data) == JSONstringify(data)

NotFound == [found |-> FALSE, data |-> JsUndefined, timestamp |-> 0]

\* point lookup; an unparsable payload counts as absent and its row is deleted
getRecommendationsCache(table, key) ==
    LET rows == {r \in table : r.location = key} IN
    IF rows = {} THEN [result |-> NotFound, table |-> table]
    ELSE LET row == CHOOSE r \in rows : TRUE
             parsed == JSONparse(row.data)
         IN  IF parsed.ok
             THEN [result |-> [found |-> TRUE, data |-> parsed.val,
                               timestamp |-> row.timestamp],
                   table |-> table]
             ELSE [result |-> NotFound, table |-> table \ {row}]

----------------------------------------------------------------------------
(* getRecommendations of the recommendation screen and of the advisor app *)

Alert(title, message) == [title |-> title, message |-> message]
NoAlert == Alert("", "")

NoLocation == [set |-> FALSE, latitude |-> 0, longitude |-> 0]
SetLocation(c) == [set |-> TRUE, latitude |-> c.latitude, longitude |-> c.longitude]

FreshInv(cache, recs) ==
    [ reported |-> "none",        \* netInfo.isConnected: "online" | "offline"
      hasLoc |-> FALSE,           \* coordinates of the request are known
      loc |-> Coord(0, 0),
      hasKey |-> FALSE,           \* locationKey was derived
      key |-> NoKey,
      fetch |-> "none",           \* outcome of the remote fetch
      response |-> JsUndefined,   \* body the server answered with
      data |-> JsUndefined,       \* local `data` / response.data
      delivered |-> JsUndefined,  \* argument of setRecommendations, if called
      lookup |-> "none",          \* getRecommendationsCache: "hit" | "miss"
      alert |-> NoAlert,          \* Alert.alert shown by this invocation
      netRequests |-> 0,          \* requests sent to the recommendation server
      cacheReads |-> 0,
      cacheWrites |-> 0,
      cacheAtStart |-> cache,     \* history: the table when the invocation began
      cacheAtLookup |-> {},       \* history: the table when the cache was read
      recsAtStart |-> recs ]      \* history: `recommendations` at that moment

FetchFailures == {"transport_error", "http_error", "bad_body"}

ErrorMessage(outcome) ==
    CASE outcome = "transport_error" -> "Network request failed"
      [] outcome = "http_error" -> "Server Error: 500"
      [] outcome = "bad_body" -> "JSON Parse error"
      [] OTHER -> "Location unavailable"

\* onPress={getRecommendations}, disabled while loading (and, in the app,
\* while no location is known): setLoading(true); await NetInfo.fetch()
Start ==
    /\ pc \in {"idle", "done"}
    /\ ~loading
    /\ mounted = "app" => location.set
    /\ calls < MaxCalls
    /\ loading' = TRUE
    /\ inv' = FreshInv(weather_cache, recommendations)
    /\ calls' = calls + 1
    /\ pc' = "netinfo"
    /\ UNCHANGED <<mounted, recommendations, location, weather_cache, now, origin>>

\* const netInfo = await NetInfo.fetch(); if (netInfo.isConnected) ... else ...
NetInfoFetch ==
    /\ pc = "netinfo"
    /\ \E isConnected \in BOOLEAN :
         /\ inv' = [inv EXCEPT !.reported = IF isConnected THEN "online" ELSE "offline",
                               !.hasLoc = (mounted = "app"),
                               !.loc = IF mounted = "app"
                                       THEN Coord(location.latitude, location.longitude)
                                       ELSE @,
                               !.hasKey = (mounted = "app" /\ ~isConnected),
                               !.key = IF mounted = "app" /\ ~isConnected
                                       THEN AppOfflineKey(location) ELSE @]
         /\ pc' = IF mounted = "screen" THEN "perm"
                  ELSE IF isConnected THEN "fetch" ELSE "get"
    /\ UNCHANGED <<mounted, loading, recommendations, location, weather_cache, now, calls, origin>>

\* screen: await Location.requestForegroundPermissionsAsync(), both branches
ScreenRequestPermission ==
    /\ mounted = "screen" /\ pc = "perm"
    /\ \E status \in {"granted", "denied"} :
         IF status # "granted"
         THEN /\ inv' = [inv EXCEPT !.alert = Alert("Permission Denied",
                           "Location permission is needed to fetch crop recommendations.")]
              /\ loading' = FALSE
              /\ pc' = "done"
         ELSE /\ pc' = "pos"
              /\ UNCHANGED <<inv, loading>>
    /\ UNCHANGED <<mounted, recommendations, location, weather_cache, now, calls, origin>>

\* screen: await Location.getCurrentPositionAsync({}); then the key
ScreenGetPosition ==
    /\ mounted = "screen" /\ pc = "pos"
    /\ \/ \E c \in Coords :
            IF inv.reported = "online"
            THEN /\ location' = SetLocation(c)
                 /\ inv' = [inv EXCEPT !.hasLoc = TRUE, !.loc = c,
                                       !.hasKey = TRUE, !.key = ScreenOnlineKey(c)]
                 /\ pc' = "fetch"
                 /\ UNCHANGED loading
            ELSE /\ inv' = [inv EXCEPT !.hasLoc = TRUE, !.loc = c,
                                       !.hasKey = TRUE, !.key = ScreenOfflineKey(c)]
                 /\ pc' = "get"
                 /\ UNCHANGED <<location, loading>>
       \/ \* the lookup rejects: catch, finally
          /\ inv' = [inv EXCEPT !.alert =
                        IF inv.reported = "online"
                        THEN Alert("Error", ErrorMessage("position"))
                        ELSE Alert("Error", "Could not load cached recommendations.")]
          /\ loading' = FALSE
          /\ pc' = "done"
          /\ UNCHANGED location
    /\ UNCHANGED <<mounted, recommendations, weather_cache, now, calls, origin>>

\* screen, online: fetch(POST /recommendations), response.ok, response.json(),
\* setRecommendations(data); a failure goes to catch and finally
ScreenFetch ==
    /\ mounted = "screen" /\ pc = "fetch"
    /\ \/ \E body \in Payloads :
            /\ inv' = [inv EXCEPT !.fetch = "ok", !.response = body, !.data = body,
                                  !.delivered = body, !.netRequests = @ + 1]
            /\ recommendations' = body
            /\ pc' = "put"
            /\ UNCHANGED loading
       \/ \E failure \in FetchFailures :
            /\ inv' = [inv EXCEPT !.fetch = failure, !.netRequests = @ + 1,
                                  !.alert = Alert("Error", ErrorMessage(failure))]
            /\ loading' = FALSE
            /\ pc' = "done"
            /\ UNCHANGED recommendations
    /\ UNCHANGED <<mounted, location, weather_cache, now, calls, origin>>

\* as ScreenCachePut, but the text written is that of the `recommendations`
\* state captured by the closure instead of the local `data`
ScreenCachePutStaleState ==
    /\ mounted = "screen" /\ pc = "put"
    /\ weather_cache' = cacheRecommendations(weather_cache, inv.key,
                                             JSONstringify(inv.recsAtStart), now)
    /\ inv' = [inv EXCEPT !.cacheWrites = @ + 1]
    /\ origin' = {o \in origin : o.id # NextRowId(weather_cache)}
                  \cup {[id |-> NextRowId(weather_cache), delivered |-> inv.delivered]}
    /\ loading' = FALSE
    /\ pc' = "done"
    /\ UNCHANGED <<mounted, recommendations, location, now, calls>>

\* screen, online: await DatabaseService.cacheRecommendations(locationKey,
\* JSON.stringify(data)); finally setLoading(false)
ScreenCachePut ==
    /\ mounted = "screen" /\ pc = "put"
    /\ weather_cache' = cacheRecommendations(weather_cache, inv.key,
                                             CacheArgument(inv.data), now)
    /\ inv' = [inv EXCEPT !.cacheWrites = @ + 1]
    /\ origin' = {o \in origin : o.id # NextRowId(weather_cache)}
                  \cup {[id |-> NextRowId(weather_cache), delivered |-> inv.delivered]}
    /\ loading' = FALSE
    /\ pc' = "done"
    /\ UNCHANGED <<mounted, recommendations, location, now, calls>>

\* as ScreenCacheGet, but without the `if (cachedData)` test: reading .data of
\* null throws, which the catch reports
ScreenCacheGetUnchecked ==
    /\ mounted = "screen" /\ pc = "get"
    /\ LET got == getRecommendationsCache(weather_cache, inv.key) IN
         /\ weather_cache' = got.table
         /\ IF got.result.found
            THEN /\ recommendations' = got.result.data
                 /\ inv' = [inv EXCEPT !.cacheReads = @ + 1, !.lookup = "hit",
                                       !.cacheAtLookup = weather_cache,
                                       !.delivered = got.result.data]
            ELSE /\ inv' = [inv EXCEPT !.cacheReads = @ + 1, !.lookup = "miss",
                                       !.cacheAtLookup = weather_cache,
                                       !.alert = Alert("Error",
                                         "Could not load cached recommendations.")]
                 /\ UNCHANGED recommendations
    /\ loading' = FALSE
    /\ pc' = "done"
    /\ UNCHANGED <<mounted, location, now, calls, origin>>

\* as ScreenCacheGet, but setRecommendations(cachedData) instead of
\* setRecommendations(cachedData.data)
ScreenCacheGetWholeResult ==
    /\ mounted = "screen" /\ pc = "get"
    /\ LET got == getRecommendationsCache(weather_cache, inv.key)
           whole == Obj(<<Member("data", got.result.data)>>) IN
         /\ weather_cache' = got.table
         /\ IF got.result.found
            THEN /\ recommendations' = whole
                 /\ inv' = [inv EXCEPT !.cacheReads = @ + 1, !.lookup = "hit",
                                       !.cacheAtLookup = weather_cache,
                                       !.delivered = whole]
            ELSE /\ inv' = [inv EXCEPT !.cacheReads = @ + 1, !.lookup = "miss",
                                       !.cacheAtLookup = weather_cache,
                                       !.alert = Alert("Offline",
                                         "You are offline and no recommendations are cached.")]
                 /\ UNCHANGED recommendations
    /\ loading' = FALSE
    /\ pc' = "done"
    /\ UNCHANGED <<mounted, location, now, calls, origin>>

\* screen, offline: getRecommendationsCache(locationKey); cached data or the
\* 'Offline' alert; finally setLoading(false)
ScreenCacheGet ==
    /\ mounted = "screen" /\ pc = "get"
    /\ LET got == getRecommendationsCache(weather_cache, inv.key) IN
         /\ weather_cache' = got.table
         /\ IF got.result.found
            THEN /\ recommendations' = got.result.data
                 /\ inv' = [inv EXCEPT !.cacheReads = @ + 1, !.lookup = "hit",
                                       !.cacheAtLookup = weather_cache,
                                       !.delivered = got.result.data]
            ELSE /\ inv' = [inv EXCEPT !.cacheReads = @ + 1, !.lookup = "miss",
                                       !.cacheAtLookup = weather_cache,
                                       !.alert = Alert("Offline",
                                         "You are offline and no recommendations are cached.")]
                 /\ UNCHANGED recommendations
    /\ loading' = FALSE
    /\ pc' = "done"
    /\ UNCHANGED <<mounted, location, now, calls, origin>>

\* app, on mount: getLocation()
AppGetLocation ==
    /\ mounted = "app" /\ pc = "mount"
    /\ \/ \E c \in Coords : location' = SetLocation(c)
       \/ \* permission denied ('Permission denied' alert) or no position
          UNCHANGED location
    /\ pc' = "idle"
    /\ UNCHANGED <<mounted, loading, recommendations, inv, weather_cache, now, calls, origin>>

\* as AppFetch, but a failed request falls back to the cached entry
AppFetchFallsBack ==
    /\ mounted = "app" /\ pc = "fetch"
    /\ \/ \E body \in Payloads :
            /\ inv' = [inv EXCEPT !.fetch = "ok", !.response = body, !.data = body,
                                  !.delivered = body, !.netRequests = @ + 1,
                                  !.hasKey = TRUE, !.key = AppOnlineKey(location)]
            /\ recommendations' = body
            /\ pc' = "put"
            /\ UNCHANGED <<loading, weather_cache>>
       \/ \E failure \in FetchFailures :
            LET got == getRecommendationsCache(weather_cache, AppOnlineKey(location)) IN
            /\ weather_cache' = got.table
            /\ IF got.result.found
               THEN /\ inv' = [inv EXCEPT !.fetch = failure, !.netRequests = @ + 1,
                                          !.cacheReads = @ + 1,
                                          !.delivered = got.result.data]
                    /\ recommendations' = got.result.data
               ELSE /\ inv' = [inv EXCEPT !.fetch = failure, !.netRequests = @ + 1,
                                          !.cacheReads = @ + 1,
                                          !.alert = Alert("Error", "Could not get recommendations")]
                    /\ UNCHANGED recommendations
            /\ loading' = FALSE
            /\ pc' = "done"
    /\ UNCHANGED <<mounted, location, now, calls, origin>>

\* as AppFetch, but a failed request stores an empty result under the key
AppFetchCachesFailure ==
    /\ mounted = "app" /\ pc = "fetch"
    /\ \/ \E body \in Payloads :
            /\ inv' = [inv EXCEPT !.fetch = "ok", !.response = body, !.data = body,
                                  !.delivered = body, !.netRequests = @ + 1,
                                  !.hasKey = TRUE, !.key = AppOnlineKey(location)]
            /\ recommendations' = body
            /\ pc' = "put"
            /\ UNCHANGED <<loading, weather_cache>>
       \/ \E failure \in FetchFailures :
            /\ inv' = [inv EXCEPT !.fetch = failure, !.netRequests = @ + 1,
                                  !.cacheWrites = @ + 1,
                                  !.alert = Alert("Error", "Could not get recommendations")]
            /\ weather_cache' = cacheRecommendations(weather_cache, AppOnlineKey(location),
                                                     CacheArgument(Obj(<<>>)), now)
            /\ loading' = FALSE
            /\ pc' = "done"
            /\ UNCHANGED recommendations
    /\ UNCHANGED <<mounted, location, now, calls, origin>>

\* app, online: axios.post(/recommendations) (rejects on a transport error and
\* on a non-2xx status), setRecommendations(response.data), the key
AppFetch ==
    /\ mounted = "app" /\ pc = "fetch"
    /\ \/ \E body \in Payloads :
            /\ inv' = [inv EXCEPT !.fetch = "ok", !.response = body, !.data = body,
                                  !.delivered = body, !.netRequests = @ + 1,
                                  !.hasKey = TRUE, !.key = AppOnlineKey(location)]
            /\ recommendations' = body
            /\ pc' = "put"
            /\ UNCHANGED loading
       \/ \E failure \in FetchFailures :
            /\ inv' = [inv EXCEPT !.fetch = failure, !.netRequests = @ + 1,
                                  !.alert = Alert("Error", "Could not get recommendations")]
            /\ loading' = FALSE
            /\ pc' = "done"
            /\ UNCHANGED recommendations
    /\ UNCHANGED <<mounted, location, weather_cache, now, calls, origin>>

\* app, online: await DatabaseService.cacheRecommendations(locationKey,
\* JSON.stringify(response.data)); finally setLoading(false)
AppCachePut ==
    /\ mounted = "app" /\ pc = "put"
    /\ weather_cache' = cacheRecommendations(weather_cache, inv.key,
                                             CacheArgument(inv.data), now)
    /\ inv' = [inv EXCEPT !.cacheWrites = @ + 1]
    /\ origin' = {o \in origin : o.id # NextRowId(weather_cache)}
                  \cup {[id |-> NextRowId(weather_cache), delivered |-> inv.delivered]}
    /\ loading' = FALSE
    /\ pc' = "done"
    /\ UNCHANGED <<mounted, recommendations, location, now, calls>>

\* as AppCacheGet, but a miss shows an empty object:
\* setRecommendations(cachedData?.data ?? {})
AppCacheGetDefaults ==
    /\ mounted = "app" /\ pc = "get"
    /\ LET got == getRecommendationsCache(weather_cache, inv.key)
           shown == IF got.result.found THEN got.result.data ELSE Obj(<<>>) IN
         /\ weather_cache' = got.table
         /\ recommendations' = shown
         /\ inv' = [inv EXCEPT !.cacheReads = @ + 1,
                               !.lookup = IF got.result.found THEN "hit" ELSE "miss",
                               !.delivered = shown]
    /\ loading' = FALSE
    /\ pc' = "done"
    /\ UNCHANGED <<mounted, location, now, calls, origin>>

\* as AppCacheGet, but a miss is reported the way a failed request is:
\* Alert.alert('Error', 'Could not get recommendations')
AppCacheGetReportsError ==
    /\ mounted = "app" /\ pc = "get"
    /\ LET got == getRecommendationsCache(weather_cache, inv.key) IN
         /\ weather_cache' = got.table
         /\ IF got.result.found
            THEN /\ recommendations' = got.result.data
                 /\ inv' = [inv EXCEPT !.cacheReads = @ + 1, !.lookup = "hit",
                                       !.cacheAtLookup = weather_cache,
                                       !.delivered = got.result.data]
            ELSE /\ inv' = [inv EXCEPT !.cacheReads = @ + 1, !.lookup = "miss",
                                       !.cacheAtLookup = weather_cache,
                                       !.alert = Alert("Error",
                                                       "Could not get recommendations")]
                 /\ UNCHANGED recommendations
    /\ loading' = FALSE
    /\ pc' = "done"
    /\ UNCHANGED <<mounted, location, now, calls, origin>>

\* app, offline: getRecommendationsCache(locationKey); cached data or the
\* 'Offline' alert; finally setLoading(false)
AppCacheGet ==
    /\ mounted = "app" /\ pc = "get"
    /\ LET got == getRecommendationsCache(weather_cache, inv.key) IN
         /\ weather_cache' = got.table
         /\ IF got.result.found
            THEN /\ recommendations' = got.result.data
                 /\ inv' = [inv EXCEPT !.cacheReads = @ + 1, !.lookup = "hit",
                                       !.cacheAtLookup = weather_cache,
                                       !.delivered = got.result.data]
            ELSE /\ inv' = [inv EXCEPT !.cacheReads = @ + 1, !.lookup = "miss",
                                       !.cacheAtLookup = weather_cache,
                                       !.alert = Alert("Offline",
                                         "You are offline and no recommendations are cached.")]
                 /\ UNCHANGED recommendations
    /\ loading' = FALSE
    /\ pc' = "done"
    /\ UNCHANGED <<mounted, location, now, calls, origin>>

\* a day passes
Tick ==
    /\ now < MaxDays
    /\ now' = now + 1
    /\ UNCHANGED <<mounted, pc, loading, recommendations, location, inv,
                   weather_cache, calls, origin>>

\* NetInfo.fetch() rejects: the await is before the try, so the promise of
\* getRecommendations rejects and neither catch nor finally runs
NetInfoFetchRejects ==
    /\ pc = "netinfo"
    /\ pc' = "rejected"
    /\ inv' = [inv EXCEPT !.reported = "unknown"]
    /\ UNCHANGED <<mounted, loading, recommendations, location, weather_cache, now,
                   calls, origin>>

\* cacheRecommendations rejects: catch (the 'Error' alert), finally
CachePutRejects ==
    /\ pc = "put"
    /\ inv' = [inv EXCEPT !.alert =
                  IF mounted = "screen" THEN Alert("Error", "database is locked")
                  ELSE Alert("Error", "Could not get recommendations")]
    /\ loading' = FALSE
    /\ pc' = "done"
    /\ UNCHANGED <<mounted, recommendations, location, weather_cache, now, calls, origin>>

\* getRecommendationsCache rejects: catch (the 'Error' alert), finally
CacheGetRejects ==
    /\ pc = "get"
    /\ inv' = [inv EXCEPT !.alert = Alert("Error", "Could not load cached recommendations.")]
    /\ loading' = FALSE
    /\ pc' = "done"
    /\ UNCHANGED <<mounted, recommendations, location, weather_cache, now, calls, origin>>

\* an await of getRecommendations, or of the mount effect, settles
Settle ==
    \/ NetInfoFetch
    \/ NetInfoFetchRejects
    \/ ScreenRequestPermission
    \/ ScreenGetPosition
    \/ ScreenFetch
    \/ ScreenCachePut
    \/ ScreenCacheGet
    \/ AppGetLocation
    \/ AppFetch
    \/ AppCachePut
    \/ AppCacheGet
    \/ CachePutRejects
    \/ CacheGetRejects

OrchInit ==
    /\ mounted \in {"screen", "app"}
    /\ pc = IF mounted = "app" THEN "mount" ELSE "idle"
    /\ loading = FALSE
    /\ recommendations = JsNull
    /\ location = NoLocation
    /\ inv = FreshInv({}, JsNull)
    /\ weather_cache = {}
    /\ now = 0
    /\ calls = 0
    /\ origin = {}

OrchNext ==
    \/ Start
    \/ NetInfoFetch
    \/ ScreenRequestPermission
    \/ ScreenGetPosition
    \/ ScreenFetch
    \/ ScreenCachePut
    \/ ScreenCacheGet
    \/ AppGetLocation
    \/ AppFetch
    \/ AppCachePut
    \/ AppCacheGet
    \/ Tick

OrchIdle ==
    /\ mounted = "screen"
    /\ pc = "idle"
    /\ loading = FALSE
    /\ recommendations = JsNull
    /\ location = NoLocation
    /\ inv = FreshInv({}, JsNull)
    /\ weather_cache = {}
    /\ now = 0
    /\ calls = 0
    /\ origin = {}

----------------------------------------------------------------------------
(* Key derivation on its own *)

\* latitudes and longitudes in 1e-5 degree.  A value whose fifth decimal is
\* exactly 5 is left out: the double nearest to it lies on either side of the
\* half step, and toFixed follows the double.
KeyLats == {-1768684, -4, 0, 4, 1768680, 1768684, 1768686}
KeyLons == {-8321853, 8321846, 8321850, 8321853}
KeyCoords == {Coord(lat, lon) : lat \in KeyLats, lon \in KeyLons}

NoKeys == [component |-> "none", written |-> NoKey, read |-> NoKey]

KeyIdle == keyIn = <<Coord(0, 0), Coord(0, 0)>> /\ keyOut = NoKeys

KeyInit == keyIn \in KeyCoords \X KeyCoords /\ keyOut = NoKeys

\* screen: the key the online branch writes under for keyIn[1] and the key
\* the offline branch reads under for keyIn[2]
ScreenDeriveKeys ==
    /\ keyOut.component = "none"
    /\ keyOut' = [component |-> "screen",
                  written |-> ScreenOnlineKey(keyIn[1]),
                  read |-> ScreenOfflineKey(keyIn[2])]
    /\ UNCHANGED keyIn

\* app: the same for its two branches
AppDeriveKeys ==
    /\ keyOut.component = "none"
    /\ keyOut' = [component |-> "app",
                  written |-> AppOnlineKey(keyIn[1]),
                  read |-> AppOfflineKey(keyIn[2])]
    /\ UNCHANGED keyIn

----------------------------------------------------------------------------
(* The keyed cache on its own, called the way the screens call it *)

CacheKeys == {ScreenOnlineKey(c) : c \in Coords}

LogEntry(op, key, found, data) ==
    [op |-> op, key |-> key, found |-> found, data |-> data]

\* cacheRecommendations(locationKey, JSON.stringify(data))
CachePutCall ==
    /\ Len(cacheLog) < MaxOps
    /\ \E key \in CacheKeys, data \in Payloads :
         /\ weather_cache' = cacheRecommendations(weather_cache, key,
                                                  CacheArgument(data), now)
         /\ cacheLog' = Append(cacheLog, LogEntry("put", key, TRUE, data))
    /\ UNCHANGED <<mounted, pc, loading, recommendations, location, inv, now,
                   calls, origin, keyVars>>

\* cachedData = getRecommendationsCache(locationKey); cachedData.data
CacheGetCall ==
    /\ Len(cacheLog) < MaxOps
    /\ \E key \in CacheKeys :
         LET got == getRecommendationsCache(weather_cache, key) IN
         /\ weather_cache' = got.table
         /\ cacheLog' = Append(cacheLog,
                               LogEntry("get", key, got.result.found, got.result.data))
    /\ UNCHANGED <<mounted, pc, loading, recommendations, location, inv, now,
                   calls, origin, keyVars>>

\* a stored payload becomes unreadable: its text loses its last token
CorruptRow ==
    /\ \E r \in weather_cache :
         /\ JSONparse(r.data).ok
         /\ weather_cache' = (weather_cache \ {r})
               \cup {[r EXCEPT !.data = SubSeq(r.data, 1, Len(r.data) - 1)]}
    /\ UNCHANGED <<mounted, pc, loading, recommendations, location, inv, now,
                   calls, origin, keyVars, cacheLog>>

----------------------------------------------------------------------------
(* Schema store: DatabaseService.initialize and the statements on its tables *)

OldUserCols == <<"id", "name", "location", "farmSize", "phone_number">>
NewUserCols == <<"id", "name", "location", "farmSize", "phone_number", "language">>
DiseaseCols == <<"id", "cropName", "diseaseName", "confidence", "imagePath", "timestamp">>
CacheCols == <<"id", "location", "data", "timestamp">>
NoTable == <<>>

\* let db = null; the handle openDatabaseAsync gives to a lone caller
NullHandle == 0
FirstHandle == 1
DefaultLanguage == "en"

HasColumn(cols, name) == \E i \in 1..Len(cols) : cols[i] = name

\* CREATE TABLE IF NOT EXISTS: an existing table keeps its columns
CreateIfNotExists(existing, cols) == IF existing = NoTable THEN cols ELSE existing

EmptySchema ==
    [user_profile |-> NoTable, user_profile_new |-> NoTable,
     disease_history |-> NoTable, weather_cache |-> NoTable]

CurrentSchema ==
    [user_profile |-> NewUserCols, user_profile_new |-> NoTable,
     disease_history |-> DiseaseCols, weather_cache |-> CacheCols]

\* what the registration form hands to createUserProfile
Users ==
    { [name |-> "Asha", location |-> "Vizag", farmSize |-> "2.5",
       mobileNumber |-> "9876543210"],
      [name |-> "Asha R", location |-> "Guntur", farmSize |-> "4",
       mobileNumber |-> "9876543210"],
      [name |-> "Ravi", location |-> "Vizag", farmSize |-> "1",
       mobileNumber |-> "9123456780"] }

\* what the home screen hands to createUserProfile: the number is in the field
\* `phone`, so user.mobileNumber is undefined and NULL is bound
DemoUser ==
    [name |-> "Demo Farmer", location |-> "Visakhapatnam, AP", farmSize |-> "2.5",
     mobileNumber |-> "undefined"]

\* numbers typed into the login form; the last one is never registered
Phones == {"9876543210", "9123456780", "9000000000"}

\* user.language: not given, or a language code
LanguageChoices == {"undefined", "te"}

\* a bound parameter: undefined is bound as NULL
Bind(value) == IF value = "undefined" THEN "NULL" ELSE value

\* as UserConflicts, but phone_number is not declared UNIQUE
UserConflictsByIdOnly(rows, row) == {r \in rows : r.id = row.id}

\* rows that collide with `row` on PRIMARY KEY (id) or UNIQUE (phone_number);
\* NULL is distinct from every value in a UNIQUE column, NULL included
UserConflicts(rows, row) ==
    {r \in rows : \/ r.id = row.id
                  \/ r.phone_number # "NULL" /\ r.phone_number = row.phone_number}

InsertOrReplaceUser(rows, row) == (rows \ UserConflicts(rows, row)) \cup {row}

\* the row createUserProfile of the version without the language column writes
V1UserRow(rows, user) ==
    [id |-> NextRowId(rows), name |-> user.name, location |-> user.location,
     farmSize |-> user.farmSize, phone_number |-> Bind(user.mobileNumber)]

\* the row createUserProfile writes: user.language ?? 'en'
UserRow(rows, user, language) ==
    [id |-> NextRowId(rows), name |-> user.name, location |-> user.location,
     farmSize |-> user.farmSize, phone_number |-> Bind(user.mobileNumber),
     language |-> IF language = "undefined" THEN DefaultLanguage ELSE language]

\* a JavaScript null returned in place of a row
Null == [null |-> TRUE]

\* the row with the smallest rowid
FirstRow(rows) == CHOOSE r \in rows : \A q \in rows : r.id <= q.id

\* version without the language column: SELECT id, name, location, farmSize,
\* phone_number as mobileNumber
V1Profile(r) ==
    [id |-> r.id, name |-> r.name, location |-> r.location,
     farmSize |-> r.farmSize, mobileNumber |-> r.phone_number]

\* SELECT id, name, location, farmSize, phone_number as mobileNumber, language
Profile(r) ==
    [id |-> r.id, name |-> r.name, location |-> r.location,
     farmSize |-> r.farmSize, mobileNumber |-> r.phone_number,
     language |-> r.language]

\* loginUser: ... WHERE phone_number = ?; rows[0] or null
V1loginUser(rows, mobileNumber) ==
    LET found == {r \in rows : r.phone_number # "NULL"
                               /\ r.phone_number = Bind(mobileNumber)}
    IN  IF found # {} THEN V1Profile(FirstRow(found)) ELSE Null

loginUser(rows, mobileNumber) ==
    LET found == {r \in rows : r.phone_number # "NULL"
                               /\ r.phone_number = Bind(mobileNumber)}
    IN  IF found # {} THEN Profile(FirstRow(found)) ELSE Null

\* getUserProfile: ... LIMIT 1; rows[0] or null
V1getUserProfile(rows) == IF rows # {} THEN V1Profile(FirstRow(rows)) ELSE Null

getUserProfile(rows) == IF rows # {} THEN Profile(FirstRow(rows)) ELSE Null

Snapshot ==
    [schema |-> schema, user_profile |-> user_profile,
     user_profile_new |-> user_profile_new, disease_history |-> disease_history,
     weather_cache |-> weather_cache]

NewInitCall(version) ==
    [version |-> version, before |-> Snapshot, columnChecked |-> FALSE,
     columnFound |-> FALSE, statements |-> 0,
     ran |-> <<>>, failed |-> <<>>, raised |-> FALSE]

NoSteps == [shadow |-> 0, copy |-> 0, drop |-> 0, rename |-> 0]

NoCall == [op |-> "none"]

\* a call of createUserProfile as the history keeps it
CreateCall(user, language, rows) ==
    [op |-> "createUserProfile", user |-> user, language |-> language,
     had |-> \E r \in rows : r.phone_number # "NULL"
                             /\ r.phone_number = Bind(user.mobileNumber),
     countBefore |-> Cardinality(rows)]

Registered(reg, user, language) ==
    {g \in reg : g.mobileNumber # user.mobileNumber}
        \cup {[mobileNumber |-> user.mobileNumber, language |-> language]}

InUse == ipc \in {"done", "ready"}

\* version 1, initialize(): getDb, then the three CREATE TABLE IF NOT EXISTS
V1Initialize ==
    /\ appVersion = 1 /\ ipc \in {"idle", "done", "ready"}
    /\ storeOps < MaxStoreOps
    /\ db' = IF db = NullHandle THEN FirstHandle ELSE db
    /\ initCall' = NewInitCall(1)
    /\ schema' = [schema EXCEPT
                    !.user_profile = CreateIfNotExists(@, OldUserCols),
                    !.disease_history = CreateIfNotExists(@, DiseaseCols),
                    !.weather_cache = CreateIfNotExists(@, CacheCols)]
    /\ storeOps' = storeOps + 1
    /\ lastCall' = NoCall
    /\ ipc' = "done"
    /\ UNCHANGED <<appVersion, user_profile, user_profile_new, disease_history,
                   migrationSteps, registered>>

\* version 1, createUserProfile: INSERT OR REPLACE (name, location, farmSize,
\* phone_number)
V1CreateUserProfile ==
    /\ appVersion = 1 /\ InUse
    /\ storeOps < MaxStoreOps
    /\ \E user \in Users :
         /\ user_profile' = InsertOrReplaceUser(user_profile,
                                                V1UserRow(user_profile, user))
         /\ lastCall' = CreateCall(user, "undefined", user_profile)
         /\ registered' = Registered(registered, user, "undefined")
    /\ storeOps' = storeOps + 1
    /\ ipc' = "ready"
    /\ UNCHANGED <<appVersion, db, schema, user_profile_new, disease_history,
                   initCall, migrationSteps>>

\* version 1, loginUser(mobileNumber)
V1LoginUser ==
    /\ appVersion = 1 /\ InUse
    /\ storeOps < MaxStoreOps
    /\ \E mobileNumber \in Phones :
         lastCall' = [op |-> "loginUser", mobileNumber |-> mobileNumber,
                      result |-> V1loginUser(user_profile, mobileNumber)]
    /\ storeOps' = storeOps + 1
    /\ ipc' = "ready"
    /\ UNCHANGED <<appVersion, db, schema, user_profile, user_profile_new,
                   disease_history, initCall, migrationSteps, registered>>

\* the app is replaced by the version that knows the language column; the new
\* process starts with db = null
Upgrade ==
    /\ appVersion = 1 /\ ipc \in {"idle", "done", "ready"}
    /\ appVersion' = 2
    /\ db' = NullHandle
    /\ ipc' = "idle"
    /\ lastCall' = NoCall
    /\ UNCHANGED <<schema, user_profile, user_profile_new, disease_history,
                   initCall, migrationSteps, storeOps, registered>>

\* initialize(): const database = await getDb()
InitializeStart ==
    /\ appVersion = 2 /\ ipc \in {"idle", "done", "ready", "failed"}
    /\ storeOps < MaxStoreOps
    /\ db' = IF db = NullHandle THEN FirstHandle ELSE db
    /\ initCall' = NewInitCall(2)
    /\ storeOps' = storeOps + 1
    /\ lastCall' = NoCall
    /\ ipc' = "create"
    /\ UNCHANGED <<appVersion, schema, user_profile, user_profile_new,
                   disease_history, migrationSteps, registered>>

\* initialize(): the batch of three CREATE TABLE IF NOT EXISTS
InitializeCreateTables ==
    /\ ipc = "create"
    /\ schema' = [schema EXCEPT
                    !.user_profile = CreateIfNotExists(@, NewUserCols),
                    !.disease_history = CreateIfNotExists(@, DiseaseCols),
                    !.weather_cache = CreateIfNotExists(@, CacheCols)]
    /\ ipc' = "check"
    /\ UNCHANGED <<appVersion, db, user_profile, user_profile_new, disease_history,
                   initCall, migrationSteps, storeOps, lastCall, registered>>

\* as InitializeCheckColumn, but the column is looked up under the name 'lang'
InitializeCheckWrongColumn ==
    /\ ipc = "check"
    /\ LET languageColumnExists == HasColumn(schema.user_profile, "lang") IN
         /\ initCall' = [initCall EXCEPT !.columnChecked = TRUE,
                                         !.columnFound = languageColumnExists]
         /\ ipc' = IF languageColumnExists THEN "done" ELSE "shadow"
    /\ UNCHANGED <<appVersion, db, schema, user_profile, user_profile_new,
                   disease_history, migrationSteps, storeOps, lastCall, registered>>

\* initialize(): PRAGMA table_info(user_profile); is there a column 'language'?
InitializeCheckColumn ==
    /\ ipc = "check"
    /\ LET languageColumnExists == HasColumn(schema.user_profile, "language") IN
         /\ initCall' = [initCall EXCEPT !.columnChecked = TRUE,
                                         !.columnFound = languageColumnExists]
         /\ ipc' = IF languageColumnExists THEN "done" ELSE "shadow"
    /\ UNCHANGED <<appVersion, db, schema, user_profile, user_profile_new,
                   disease_history, migrationSteps, storeOps, lastCall, registered>>

\* migration 1: CREATE TABLE IF NOT EXISTS user_profile_new
MigrateCreateShadow ==
    /\ ipc = "shadow"
    /\ schema' = [schema EXCEPT !.user_profile_new = CreateIfNotExists(@, NewUserCols)]
    /\ initCall' = [initCall EXCEPT !.statements = @ + 1,
                                    !.ran = Append(@, "shadow")]
    /\ migrationSteps' = [migrationSteps EXCEPT !.shadow = @ + 1]
    /\ ipc' = "copy"
    /\ UNCHANGED <<appVersion, db, user_profile, user_profile_new, disease_history,
                   storeOps, lastCall, registered>>

\* as CopiedRows, but the column list of the copy leaves out farmSize
CopiedRowsWithoutFarmSize(rows) ==
    {[id |-> r.id, name |-> r.name, location |-> r.location,
      farmSize |-> "NULL", phone_number |-> r.phone_number,
      language |-> DefaultLanguage] : r \in rows}

\* the rows INSERT INTO user_profile_new (id, name, location, farmSize,
\* phone_number) SELECT ... FROM user_profile adds: language takes its default
CopiedRows(rows) ==
    {[id |-> r.id, name |-> r.name, location |-> r.location,
      farmSize |-> r.farmSize, phone_number |-> r.phone_number,
      language |-> DefaultLanguage] : r \in rows}

\* migration 2: the copy; a failing statement changes nothing and is only logged
MigrateCopy ==
    /\ ipc = "copy"
    /\ LET copied == CopiedRows(user_profile)
           fails == \E c \in copied : UserConflicts(user_profile_new, c) # {}
       IN  /\ user_profile_new' = IF fails THEN user_profile_new
                                  ELSE user_profile_new \cup copied
           /\ initCall' = [initCall EXCEPT
                             !.statements = @ + 1,
                             !.ran = IF fails THEN @ ELSE Append(@, "copy"),
                             !.failed = IF fails THEN Append(@, "copy") ELSE @]
    /\ migrationSteps' = [migrationSteps EXCEPT !.copy = @ + 1]
    /\ ipc' = "drop"
    /\ UNCHANGED <<appVersion, db, schema, user_profile, disease_history, storeOps,
                   lastCall, registered>>

\* migration 3: DROP TABLE user_profile
MigrateDrop ==
    /\ ipc = "drop"
    /\ IF schema.user_profile = NoTable
       THEN \* no such table: the statement throws, initialize() rethrows
            /\ ipc' = "failed"
            /\ initCall' = [initCall EXCEPT !.failed = Append(@, "drop"),
                                            !.raised = TRUE]
            /\ UNCHANGED <<schema, user_profile, migrationSteps>>
       ELSE /\ schema' = [schema EXCEPT !.user_profile = NoTable]
            /\ user_profile' = {}
            /\ initCall' = [initCall EXCEPT !.statements = @ + 1,
                                            !.ran = Append(@, "drop")]
            /\ migrationSteps' = [migrationSteps EXCEPT !.drop = @ + 1]
            /\ ipc' = "rename"
    /\ UNCHANGED <<appVersion, db, user_profile_new, disease_history, storeOps,
                   lastCall, registered>>

\* migration 4: ALTER TABLE user_profile_new RENAME TO user_profile
MigrateRename ==
    /\ ipc = "rename"
    /\ IF schema.user_profile_new = NoTable \/ schema.user_profile # NoTable
       THEN \* the statement throws, initialize() rethrows
            /\ ipc' = "failed"
            /\ initCall' = [initCall EXCEPT !.failed = Append(@, "rename"),
                                            !.raised = TRUE]
            /\ UNCHANGED <<schema, user_profile, user_profile_new, migrationSteps>>
       ELSE /\ schema' = [schema EXCEPT !.user_profile = schema.user_profile_new,
                                        !.user_profile_new = NoTable]
            /\ user_profile' = user_profile_new
            /\ user_profile_new' = {}
            /\ initCall' = [initCall EXCEPT !.statements = @ + 1,
                                            !.ran = Append(@, "rename")]
            /\ migrationSteps' = [migrationSteps EXCEPT !.rename = @ + 1]
            /\ ipc' = "done"
    /\ UNCHANGED <<appVersion, db, disease_history, storeOps, lastCall, registered>>

\* createUserProfile: INSERT OR REPLACE (name, location, farmSize, phone_number,
\* language), language ?? 'en'
CreateUserProfile ==
    /\ appVersion = 2 /\ InUse
    /\ storeOps < MaxStoreOps
    /\ \E user \in Users, language \in LanguageChoices :
         /\ user_profile' = InsertOrReplaceUser(user_profile,
                                                UserRow(user_profile, user, language))
         /\ lastCall' = CreateCall(user, language, user_profile)
         /\ registered' = Registered(registered, user, language)
    /\ storeOps' = storeOps + 1
    /\ ipc' = "ready"
    /\ UNCHANGED <<appVersion, db, schema, user_profile_new, disease_history,
                   initCall, migrationSteps>>

\* loginUser(mobileNumber)
LoginUser ==
    /\ appVersion = 2 /\ InUse
    /\ storeOps < MaxStoreOps
    /\ \E mobileNumber \in Phones :
         lastCall' = [op |-> "loginUser", mobileNumber |-> mobileNumber,
                      result |-> loginUser(user_profile, mobileNumber)]
    /\ storeOps' = storeOps + 1
    /\ ipc' = "ready"
    /\ UNCHANGED <<appVersion, db, schema, user_profile, user_profile_new,
                   disease_history, initCall, migrationSteps, registered>>

\* home screen, loadUserProfile: getUserProfile(); with no profile, a demo
\* profile is created and read back
LoadUserProfile ==
    /\ InUse
    /\ storeOps < MaxStoreOps
    /\ LET profile == IF appVersion = 1 THEN V1getUserProfile(user_profile)
                      ELSE getUserProfile(user_profile)
           row == IF appVersion = 1 THEN V1UserRow(user_profile, DemoUser)
                  ELSE UserRow(user_profile, DemoUser, "undefined")
       IN  IF profile = Null
           THEN /\ user_profile' = InsertOrReplaceUser(user_profile, row)
                /\ lastCall' = CreateCall(DemoUser, "undefined", user_profile)
           ELSE /\ lastCall' = [op |-> "getUserProfile", result |-> profile]
                /\ UNCHANGED user_profile
    /\ storeOps' = storeOps + 1
    /\ ipc' = "ready"
    /\ UNCHANGED <<appVersion, db, schema, user_profile_new, disease_history,
                   initCall, migrationSteps, registered>>

\* what analyzeImage found: one of its `diseases`, picked at random
DiseaseNames == {"Leaf Spot", "Healthy"}

\* as AddDiseaseDetection, but the record of a crop replaces the earlier
\* record of that crop (INSERT OR REPLACE on a UNIQUE cropName)
AddDiseaseDetectionPerCrop ==
    /\ InUse
    /\ storeOps < MaxStoreOps
    /\ \E diseaseName \in DiseaseNames :
         /\ disease_history' =
              {r \in disease_history : r.cropName # "Unknown Crop"} \cup
              {[id |-> NextRowId(disease_history), cropName |-> "Unknown Crop",
                diseaseName |-> diseaseName, confidence |-> "0.89",
                imagePath |-> "file:///photo.jpg", timestamp |-> now]}
         /\ lastCall' = [op |-> "addDiseaseDetection", diseaseName |-> diseaseName]
    /\ storeOps' = storeOps + 1
    /\ ipc' = "ready"
    /\ UNCHANGED <<appVersion, db, schema, user_profile, user_profile_new,
                   initCall, migrationSteps, registered>>

\* addDiseaseDetection: INSERT INTO disease_history (...), Date.now()
AddDiseaseDetection ==
    /\ InUse
    /\ storeOps < MaxStoreOps
    /\ \E diseaseName \in DiseaseNames :
         /\ disease_history' = disease_history \cup
              {[id |-> NextRowId(disease_history), cropName |-> "Unknown Crop",
                diseaseName |-> diseaseName, confidence |-> "0.89",
                imagePath |-> "file:///photo.jpg", timestamp |-> now]}
         /\ lastCall' = [op |-> "addDiseaseDetection", diseaseName |-> diseaseName]
    /\ storeOps' = storeOps + 1
    /\ ipc' = "ready"
    /\ UNCHANGED <<appVersion, db, schema, user_profile, user_profile_new,
                   initCall, migrationSteps, registered>>

\* a recommendation is cached while the store is in use
StoreCachePut ==
    /\ InUse
    /\ storeOps < MaxStoreOps
    /\ \E key \in CacheKeys :
         weather_cache' = cacheRecommendations(weather_cache, key,
                                               CacheArgument(PayloadTemp30), now)
    /\ lastCall' = [op |-> "cacheRecommendations"]
    /\ storeOps' = storeOps + 1
    /\ ipc' = "ready"
    /\ UNCHANGED <<mounted, pc, loading, recommendations, location, inv, now,
                   calls, origin>>
    /\ UNCHANGED <<appVersion, db, schema, user_profile, user_profile_new,
                   disease_history, initCall, migrationSteps, registered>>

----------------------------------------------------------------------------
(* Statements of initialize() that the database rejects *)

\* the batch of CREATE TABLE statements throws: catch, console.error, throw
InitializeCreateTablesFails ==
    /\ ipc = "create"
    /\ initCall' = [initCall EXCEPT !.failed = Append(@, "create"), !.raised = TRUE]
    /\ ipc' = "failed"
    /\ UNCHANGED <<appVersion, db, schema, user_profile, user_profile_new,
                   disease_history, migrationSteps, storeOps, lastCall, registered>>

\* migration 1 throws: the outer catch rethrows
MigrateCreateShadowFails ==
    /\ ipc = "shadow"
    /\ initCall' = [initCall EXCEPT !.failed = Append(@, "shadow"), !.raised = TRUE]
    /\ ipc' = "failed"
    /\ UNCHANGED <<appVersion, db, schema, user_profile, user_profile_new,
                   disease_history, migrationSteps, storeOps, lastCall, registered>>

\* as MigrateCopyFails, but without the inner try/catch around the copy
MigrateCopyFailsRethrows ==
    /\ ipc = "copy"
    /\ initCall' = [initCall EXCEPT !.failed = Append(@, "copy"), !.raised = TRUE]
    /\ ipc' = "failed"
    /\ UNCHANGED <<appVersion, db, schema, user_profile, user_profile_new,
                   disease_history, migrationSteps, storeOps, lastCall, registered>>

\* migration 2 throws: the inner catch warns, initialize() goes on
MigrateCopyFails ==
    /\ ipc = "copy"
    /\ initCall' = [initCall EXCEPT !.failed = Append(@, "copy")]
    /\ ipc' = "drop"
    /\ UNCHANGED <<appVersion, db, schema, user_profile, user_profile_new,
                   disease_history, migrationSteps, storeOps, lastCall, registered>>

\* migration 3 throws: the outer catch rethrows
MigrateDropFails ==
    /\ ipc = "drop"
    /\ initCall' = [initCall EXCEPT !.failed = Append(@, "drop"), !.raised = TRUE]
    /\ ipc' = "failed"
    /\ UNCHANGED <<appVersion, db, schema, user_profile, user_profile_new,
                   disease_history, migrationSteps, storeOps, lastCall, registered>>

\* migration 4 throws: the outer catch rethrows
MigrateRenameFails ==
    /\ ipc = "rename"
    /\ initCall' = [initCall EXCEPT !.failed = Append(@, "rename"), !.raised = TRUE]
    /\ ipc' = "failed"
    /\ UNCHANGED <<appVersion, db, schema, user_profile, user_profile_new,
                   disease_history, migrationSteps, storeOps, lastCall, registered>>

FaultNext ==
    \/ InitializeCreateTablesFails
    \/ MigrateCreateShadowFails
    \/ MigrateCopyFails
    \/ MigrateDropFails
    \/ MigrateRenameFails

\* a process of the current version whose initialize() has returned
StoreIdle ==
    /\ appVersion = 2
    /\ db = FirstHandle
    /\ ipc = "ready"
    /\ schema = CurrentSchema
    /\ user_profile = {}
    /\ user_profile_new = {}
    /\ disease_history = {}
    /\ initCall = [version |-> 2,
                   before |-> [schema |-> CurrentSchema, user_profile |-> {},
                               user_profile_new |-> {}, disease_history |-> {},
                               weather_cache |-> {}],
                   columnChecked |-> TRUE, columnFound |-> TRUE, statements |-> 0,
                   ran |-> <<>>, failed |-> <<>>, raised |-> FALSE]
    /\ migrationSteps = NoSteps
    /\ storeOps = 0
    /\ lastCall = NoCall
    /\ registered = {}

\* a device on which the app was never started
StoreInit ==
    /\ appVersion = 1
    /\ db = NullHandle
    /\ ipc = "idle"
    /\ schema = EmptySchema
    /\ user_profile = {}
    /\ user_profile_new = {}
    /\ disease_history = {}
    /\ initCall = [version |-> 1,
                   before |-> [schema |-> EmptySchema, user_profile |-> {},
                               user_profile_new |-> {}, disease_history |-> {},
                               weather_cache |-> {}],
                   columnChecked |-> FALSE, columnFound |-> FALSE, statements |-> 0,
                   ran |-> <<>>, failed |-> <<>>, raised |-> FALSE]
    /\ migrationSteps = NoSteps
    /\ storeOps = 0
    /\ lastCall = NoCall
    /\ registered = {}

StoreNext ==
    \/ V1Initialize
    \/ V1CreateUserProfile
    \/ Upgrade
    \/ InitializeStart
    \/ InitializeCreateTables
    \/ InitializeCheckColumn
    \/ MigrateCreateShadow
    \/ MigrateCopy
    \/ MigrateDrop
    \/ MigrateRename
    \/ CreateUserProfile
    \/ V1LoginUser
    \/ LoginUser
    \/ LoadUserProfile
    \/ AddDiseaseDetection

----------------------------------------------------------------------------
(* Bootstrap of the process *)

\* the process before its first effect ran
NoBoot ==
    [ pc |-> "none",            \* "start" | "initializing" | "ready"
      isInitialized |-> FALSE,  \* AppContent: useState(false)
      alerted |-> FALSE,        \* initializeApp showed its error alert
      screenMounted |-> FALSE,  \* the recommendation screen ran its mount effect
      initReturned |-> FALSE,   \* history: an initialize() of this process returned
      initRaised |-> FALSE,     \* history: an initialize() of this process raised
      early |-> FALSE ]         \* history: the store was used before any
                                \* initialize() of this process had returned

BootIdle == boot = NoBoot

\* what a step of initialize() means for the history of the process
NoteInitialize(b) ==
    [b EXCEPT !.initReturned = @ \/ ipc' = "done",
              !.initRaised = @ \/ ipc' = "failed"]

\* what a step of getRecommendations means for the history of the process
NoteStoreUse(b) ==
    [b EXCEPT !.early = @ \/ ( /\ ~b.initReturned
                               /\ inv'.cacheReads + inv'.cacheWrites
                                     > inv.cacheReads + inv.cacheWrites )]

\* the first effect: AppContent calls initializeApp(), which awaits
\* DatabaseService.initialize(); the advisor app calls initialize() and does
\* not wait for it
BootStart ==
    /\ boot.pc = "start"
    /\ InitializeStart
    /\ boot' = [boot EXCEPT !.pc = "initializing",
                            !.isInitialized = (mounted = "app")]

\* initialize() goes on: the CREATE TABLE batch, which can fail, and the
\* column check
BootInitializeStep ==
    /\ boot.pc # "start"
    /\ InitializeCreateTables \/ InitializeCreateTablesFails \/ InitializeCheckColumn
    /\ boot' = NoteInitialize(boot)

\* initializeApp after initialize() returned: LanguageService.initialize(),
\* getUserProfile(), setIsInitialized(true)
BootInitialized ==
    /\ mounted = "screen" /\ boot.pc = "initializing" /\ ipc = "done"
    /\ lastCall' = [op |-> "getUserProfile", result |-> getUserProfile(user_profile)]
    /\ ipc' = "ready"
    /\ boot' = [boot EXCEPT !.pc = "ready", !.isInitialized = TRUE]
    /\ UNCHANGED <<appVersion, db, schema, user_profile, user_profile_new,
                   disease_history, initCall, migrationSteps, storeOps, registered>>

\* initializeApp after initialize() raised: catch (console.error, Alert.alert),
\* then setIsInitialized(true) all the same
BootInitializeFailed ==
    /\ mounted = "screen" /\ boot.pc = "initializing" /\ ipc = "failed"
    /\ boot' = [boot EXCEPT !.pc = "ready", !.alerted = TRUE, !.isInitialized = TRUE]
    /\ UNCHANGED storeVars

\* the recommendation screen is rendered once isInitialized is set; its mount
\* effect calls initialize() and does not wait for it
BootScreenMount ==
    /\ mounted = "screen" /\ boot.isInitialized /\ ~boot.screenMounted
    /\ InitializeStart
    /\ boot' = [boot EXCEPT !.screenMounted = TRUE]

\* getRecommendations of the mounted component
BootOrch ==
    /\ mounted = "screen" => boot.screenMounted
    /\ mounted = "app" => boot.pc # "start"
    /\ OrchNext
    /\ boot' = NoteStoreUse(boot)

\* a process starts on a device whose store has its tables
BootInit ==
    /\ boot = [NoBoot EXCEPT !.pc = "start"]
    /\ appVersion = 2
    /\ db = NullHandle
    /\ ipc = "idle"
    /\ schema = CurrentSchema
    /\ user_profile = {}
    /\ user_profile_new = {}
    /\ disease_history = {}
    /\ initCall = [NewInitCall(2) EXCEPT !.before.weather_cache = {}]
    /\ migrationSteps = NoSteps
    /\ storeOps = 0
    /\ lastCall = NoCall
    /\ registered = {}

----------------------------------------------------------------------------
(* getDb with callers that overlap *)

\* the functions of DatabaseService that are in flight at the same time, each
\* beginning with `await getDb()`
Callers == 1 .. 3

\* a caller that is not inside getDb
NoGetter == [pc |-> "idle", handle |-> NullHandle, calls |-> 0]

ConnIdle == getters = [c \in Callers |-> NoGetter] /\ opened = 0

\* SQLite.openDatabaseAsync gives a new connection object on every call
OpenedHandle(n) == FirstHandle + n

\* `if (!db)`: with a handle in `db` the call returns it; without one it calls
\* SQLite.openDatabaseAsync and waits, and other callers run meanwhile
GetDbCheck(c) ==
    /\ getters[c].pc # "opening"
    /\ getters[c].calls < MaxGetDbCalls
    /\ IF db = NullHandle
         THEN /\ getters' = [getters EXCEPT ![c] =
                      [pc |-> "opening", handle |-> OpenedHandle(opened),
                       calls |-> @.calls + 1]]
              /\ opened' = opened + 1
         ELSE /\ getters' = [getters EXCEPT ![c] =
                      [pc |-> "returned", handle |-> db, calls |-> @.calls + 1]]
              /\ opened' = opened
    /\ db' = db

\* the open resolved: `db = <the connection>; return db;`
GetDbOpened(c) ==
    /\ getters[c].pc = "opening"
    /\ db' = getters[c].handle
    /\ getters' = [getters EXCEPT ![c].pc = "returned"]
    /\ opened' = opened

\* a process that has not opened its database
ConnInit ==
    /\ getters = [c \in Callers |-> NoGetter]
    /\ opened = 0
    /\ appVersion = 2
    /\ db = NullHandle
    /\ ipc = "idle"
    /\ schema = CurrentSchema
    /\ user_profile = {}
    /\ user_profile_new = {}
    /\ disease_history = {}
    /\ initCall = [NewInitCall(2) EXCEPT !.before.weather_cache = {}]
    /\ migrationSteps = NoSteps
    /\ storeOps = 0
    /\ lastCall = NoCall
    /\ registered = {}

----------------------------------------------------------------------------
(* getRecommendations invocations that overlap *)

\* two invocations in flight at once: a second press before `loading`
\* disables the button, or two mounted components
Writers == 1 .. 2

NoWriter ==
    [ pc |-> "idle",           \* "fetch" | "put" | "done"
      key |-> NoKey,           \* locationKey
      data |-> JsUndefined,    \* what response.json() gave this invocation
      overlapped |-> FALSE ]   \* history: another invocation was between its
                               \* start and its write when this one wrote

RaceIdle == writers = [w \in Writers |-> NoWriter] /\ applied = <<>>

\* online branch up to the request: setLoading(true), the position,
\* setLocation(loc.coords), locationKey
WriterStart(w) ==
    /\ writers[w].pc = "idle"
    /\ \E c \in Coords :
         /\ writers' = [writers EXCEPT ![w].pc = "fetch",
                                       ![w].key = ScreenOnlineKey(c)]
         /\ location' = SetLocation(c)
    /\ loading' = TRUE
    /\ UNCHANGED <<recommendations, weather_cache, now, applied>>

\* the server answered this invocation: data = await response.json();
\* setRecommendations(data)
WriterFetched(w) ==
    /\ writers[w].pc = "fetch"
    /\ \E body \in Payloads :
         /\ writers' = [writers EXCEPT ![w].pc = "put", ![w].data = body]
         /\ recommendations' = body
    /\ UNCHANGED <<loading, location, weather_cache, now, applied>>

\* as WriterPut, but a row that is already there for the key is kept
\* (INSERT OR IGNORE)
WriterPutKeepsFirst(w) ==
    /\ writers[w].pc = "put"
    /\ weather_cache' =
          IF \E r \in weather_cache : r.location = writers[w].key
          THEN weather_cache
          ELSE cacheRecommendations(weather_cache, writers[w].key,
                                    CacheArgument(writers[w].data), now)
    /\ writers' = [writers EXCEPT
                      ![w].pc = "done",
                      ![w].overlapped =
                          \E o \in Writers \ {w} : writers[o].pc \in {"fetch", "put"}]
    /\ applied' = Append(applied, w)
    /\ loading' = FALSE
    /\ UNCHANGED <<recommendations, location, now>>

\* await DatabaseService.cacheRecommendations(locationKey, JSON.stringify(data));
\* finally setLoading(false).  The write is one statement, so the store
\* applies the writes of the two invocations one after the other
WriterPut(w) ==
    /\ writers[w].pc = "put"
    /\ weather_cache' = cacheRecommendations(weather_cache, writers[w].key,
                                             CacheArgument(writers[w].data), now)
    /\ writers' = [writers EXCEPT
                      ![w].pc = "done",
                      ![w].overlapped =
                          \E o \in Writers \ {w} : writers[o].pc \in {"fetch", "put"}]
    /\ applied' = Append(applied, w)
    /\ loading' = FALSE
    /\ UNCHANGED <<recommendations, location, now>>

\* time passes between the steps of the invocations
RaceTick == Tick /\ UNCHANGED raceVars

----------------------------------------------------------------------------
(* AgriculturalAPI of the integration guide: the cache with a 24-hour check *)

DayMs == 24 * 60 * 60 * 1000

\* the instants at which something happens, around one day after the start
Instants == {0, 1, DayMs, DayMs + 1}

\* farmData.latitude and farmData.longitude of the requests
GuideCoords == {Coord(1768680, 8321850), Coord(1768684, 8321853)}

\* `recommendations_${farmData.latitude}_${farmData.longitude}`: the numbers
\* as they are, not rounded
GuideKey(c) == <<"recommendations", c.latitude, c.longitude>>

GuideKeys == {GuideKey(c) : c \in GuideCoords}

\* response.data of the guide's server
GuidePayloads == {PayloadTemp30, JsNull}

\* an item of AsyncStorage; getItem gives null for a key without item
NoItem ==
    [ present |-> FALSE,
      text |-> <<>>,
      intact |-> FALSE,    \* history: the text is as setItem wrote it
      writtenAt |-> 0,     \* history: Date.now() of that setItem
      written |-> JsUndefined ]  \* history: response.data of that setItem

\* a number as JSON.stringify writes it
NumberText(n) == ToString(n)

\* JSON.stringify({ data: response.data, timestamp: Date.now() })
EntryText(data, t) ==
    JSONstringify(Obj(<<Member("data", data), Member("timestamp", Num(NumberText(t)))>>))

\* obj[name]; undefined for a property that is not there
RECURSIVE FieldFrom(_, _, _)
FieldFrom(kids, name, i) ==
    IF i > Len(kids) THEN JsUndefined
    ELSE IF kids[i].atom = name THEN kids[i].kids[1]
    ELSE FieldFrom(kids, name, i + 1)

Field(v, name) == IF v.tag = "obj" THEN FieldFrom(v.kids, name, 1) ELSE JsUndefined

\* the number a value becomes in `Date.now() - timestamp`
ToNumber(v) ==
    CASE v.tag = "num" /\ (\E n \in Instants : NumberText(n) = v.atom) ->
             [nan |-> FALSE, n |-> CHOOSE n \in Instants : NumberText(n) = v.atom]
      [] v.tag = "null" -> [nan |-> FALSE, n |-> 0]
      [] OTHER -> [nan |-> TRUE, n |-> 0]

\* what `if (x)` takes as true
Truthy(v) ==
    /\ v.tag \notin {"undefined", "null"}
    /\ ~(v.tag = "num" /\ v.atom = "0")
    /\ ~(v.tag = "str" /\ v.atom = "")

\* as Fresh, but an entry of exactly 24 hours is still used
FreshInclusive(age) == age <= DayMs

\* Date.now() - timestamp < 24 * 60 * 60 * 1000
Fresh(age) == age < DayMs

Looked(value, logged) == [value |-> value, logged |-> logged, raised |-> FALSE]

\* getCachedRecommendations(farmData): getItem, JSON.parse, the 24-hour check,
\* all inside try; the catch logs; `return null` follows
getCachedRecommendations(item, t, getItemRejects) ==
    IF getItemRejects THEN Looked(JsNull, TRUE)
    ELSE IF ~item.present \/ item.text = <<>> THEN Looked(JsNull, FALSE)
    ELSE LET parsed == JSONparse(item.text) IN
         IF ~parsed.ok THEN Looked(JsNull, TRUE)
         ELSE IF parsed.val.tag = "null" THEN Looked(JsNull, TRUE)
         ELSE LET timestamp == ToNumber(Field(parsed.val, "timestamp")) IN
              IF ~timestamp.nan /\ Fresh(t - timestamp.n)
              THEN Looked(Field(parsed.val, "data"), FALSE)
              ELSE Looked(JsNull, FALSE)

NoGuideCall == [op |-> "none", calls |-> 0]

GuideIdle ==
    /\ asyncStorage = [k \in GuideKeys |-> NoItem]
    /\ clock = 0
    /\ guide = NoGuideCall

\* getCropRecommendations(farmData): post, setItem, return response.data; on
\* any failure in between the cached value if there is one, else the error
\* is thrown again
GetCropRecommendations ==
    /\ guide.calls < MaxGuideCalls
    /\ \E c \in GuideCoords, setItemRejects \in BOOLEAN, getItemRejects \in BOOLEAN :
      LET key == GuideKey(c)
          item == asyncStorage[key]
          Call(fetch, error, look, outcome, value) ==
              [op |-> "getCropRecommendations", calls |-> guide.calls + 1,
               key |-> key, at |-> clock,
               fetch |-> fetch, item |-> item, lookedUp |-> error # "none",
               lookup |-> look, outcome |-> outcome, value |-> value,
               error |-> error]
          Caught(fetch, error) ==
              LET cached == getCachedRecommendations(item, clock, getItemRejects) IN
              IF Truthy(cached.value)
              THEN Call(fetch, error, cached, "returned", cached.value)
              ELSE Call(fetch, error, cached, "threw", JsUndefined)
      IN
      \/ \E data \in GuidePayloads :
           IF setItemRejects
           THEN /\ guide' = Caught("ok", "storage_error")
                /\ UNCHANGED <<asyncStorage, clock>>
           ELSE /\ asyncStorage' = [asyncStorage EXCEPT ![key] =
                       [present |-> TRUE, text |-> EntryText(data, clock),
                        intact |-> TRUE, writtenAt |-> clock, written |-> data]]
                /\ guide' = Call("ok", "none", Looked(JsNull, FALSE), "returned", data)
                /\ UNCHANGED clock
      \/ \E failure \in FetchFailures :
           /\ setItemRejects = FALSE
           /\ guide' = Caught(failure, failure)
           /\ UNCHANGED <<asyncStorage, clock>>

\* time passes
GuideTick ==
    /\ \E t \in Instants : t > clock /\ clock' = t
    /\ UNCHANGED <<asyncStorage, guide>>

\* an item becomes unreadable: its text is cut short, or it is replaced by
\* `null` or by a value that is no entry
GuideDamage ==
    /\ \E k \in GuideKeys :
         /\ asyncStorage[k].intact
         /\ \E text \in { SubSeq(asyncStorage[k].text, 1, Len(asyncStorage[k].text) - 1),
                           JSONstringify(JsNull),
                           JSONstringify(PayloadTemp30) } :
              asyncStorage' = [asyncStorage EXCEPT ![k].text = text,
                                                   ![k].intact = FALSE]
    /\ UNCHANGED <<clock, guide>>

----------------------------------------------------------------------------
(* initialize() interrupted by the end of its process *)

NoCut == [happened |-> FALSE, at |-> "none", before |-> {}, oldShape |-> FALSE]

CutIdle == cut = NoCut

\* the process is killed while initialize() waits for a statement or has just
\* got its result: what the statements before did stays in the database file,
\* the module variable `db` is gone with the process
Kill ==
    /\ ~cut.happened
    /\ appVersion = 2
    /\ ipc \in {"create", "check", "shadow", "copy", "drop", "rename"}
    /\ cut' = [happened |-> TRUE, at |-> ipc,
               before |-> initCall.before.user_profile,
               oldShape |-> initCall.before.schema.user_profile = OldUserCols]
    /\ ipc' = "idle"
    /\ db' = NullHandle
    /\ UNCHANGED <<appVersion, schema, user_profile, user_profile_new,
                   disease_history, initCall, migrationSteps, storeOps, lastCall,
                   registered>>

----------------------------------------------------------------------------
(* initialize() calls that overlap *)

\* the bootstrap call and a mount-time call, or two mount-time calls
Initializers == 1 .. 2

NoInitializer ==
    [ pc |-> "idle",   \* "create" | "check" | "shadow" | "copy" | "drop" |
                       \* "rename" | "returned" | "raised"
      languageColumnExists |-> FALSE,
      warned |-> FALSE ]   \* the inner catch logged a failed copy

NoOverlap == [original |-> {}, call |-> [c \in Initializers |-> NoInitializer]]

OverlapIdle == overlap = NoOverlap

At(c, position) == overlap.call[c].pc = position

Goto(c, position) == overlap' = [overlap EXCEPT !.call[c].pc = position]

\* const database = await getDb()
OverlapStart(c) ==
    /\ At(c, "idle")
    /\ Goto(c, "create")
    /\ UNCHANGED <<schema, user_profile, user_profile_new>>

\* the batch of CREATE TABLE IF NOT EXISTS
OverlapCreateTables(c) ==
    /\ At(c, "create")
    /\ schema' = [schema EXCEPT
                    !.user_profile = CreateIfNotExists(@, NewUserCols),
                    !.disease_history = CreateIfNotExists(@, DiseaseCols),
                    !.weather_cache = CreateIfNotExists(@, CacheCols)]
    /\ Goto(c, "check")
    /\ UNCHANGED <<user_profile, user_profile_new>>

\* PRAGMA table_info(user_profile); `if (!languageColumnExists)`
OverlapCheckColumn(c) ==
    /\ At(c, "check")
    /\ LET languageColumnExists == HasColumn(schema.user_profile, "language") IN
         overlap' = [overlap EXCEPT
                        !.call[c].languageColumnExists = languageColumnExists,
                        !.call[c].pc = IF languageColumnExists THEN "returned"
                                       ELSE "shadow"]
    /\ UNCHANGED <<schema, user_profile, user_profile_new>>

\* CREATE TABLE IF NOT EXISTS user_profile_new
OverlapCreateShadow(c) ==
    /\ At(c, "shadow")
    /\ schema' = [schema EXCEPT !.user_profile_new = CreateIfNotExists(@, NewUserCols)]
    /\ Goto(c, "copy")
    /\ UNCHANGED <<user_profile, user_profile_new>>

\* the copy, in its own try: a missing table or a row that is already there
\* makes the statement fail as a whole, which is only logged
OverlapCopy(c) ==
    /\ At(c, "copy")
    /\ LET copied == CopiedRows(user_profile)
           fails == \/ schema.user_profile = NoTable
                    \/ schema.user_profile_new = NoTable
                    \/ \E r \in copied : UserConflicts(user_profile_new, r) # {}
       IN  /\ user_profile_new' = IF fails THEN user_profile_new
                                  ELSE user_profile_new \cup copied
           /\ overlap' = [overlap EXCEPT !.call[c].pc = "drop",
                                         !.call[c].warned = fails]
    /\ UNCHANGED <<schema, user_profile>>

\* DROP TABLE user_profile; without the table the statement throws and
\* initialize() rethrows
OverlapDrop(c) ==
    /\ At(c, "drop")
    /\ IF schema.user_profile = NoTable
       THEN /\ Goto(c, "raised")
            /\ UNCHANGED <<schema, user_profile>>
       ELSE /\ schema' = [schema EXCEPT !.user_profile = NoTable]
            /\ user_profile' = {}
            /\ Goto(c, "rename")
    /\ UNCHANGED user_profile_new

\* ALTER TABLE user_profile_new RENAME TO user_profile; without the shadow, or
\* with a user_profile in the way, the statement throws and initialize()
\* rethrows
OverlapRename(c) ==
    /\ At(c, "rename")
    /\ IF schema.user_profile_new = NoTable \/ schema.user_profile # NoTable
       THEN /\ Goto(c, "raised")
            /\ UNCHANGED <<schema, user_profile, user_profile_new>>
       ELSE /\ schema' = [schema EXCEPT !.user_profile = schema.user_profile_new,
                                        !.user_profile_new = NoTable]
            /\ user_profile' = user_profile_new
            /\ user_profile_new' = {}
            /\ Goto(c, "returned")

\* the rows the version without the language column left in the table
OldRowSets ==
    { {},
      {V1UserRow({}, u) : u \in {v \in Users : v.name = "Asha"}},
      LET first == {V1UserRow({}, u) : u \in {v \in Users : v.name = "Asha"}}
      IN  first \cup {V1UserRow(first, u) : u \in {v \in Users : v.name = "Ravi"}} }

\* a process of the new version starts on a store of the old shape
OverlapInit ==
    /\ appVersion = 2
    /\ db = FirstHandle
    /\ ipc = "idle"
    /\ schema = [user_profile |-> OldUserCols, user_profile_new |-> NoTable,
                 disease_history |-> DiseaseCols, weather_cache |-> CacheCols]
    /\ user_profile \in OldRowSets
    /\ user_profile_new = {}
    /\ disease_history = {}
    /\ initCall = [NewInitCall(2) EXCEPT !.before.weather_cache = {}]
    /\ migrationSteps = NoSteps
    /\ storeOps = 0
    /\ lastCall = NoCall
    /\ registered = {}
    /\ overlap = [NoOverlap EXCEPT !.original = user_profile]

----------------------------------------------------------------------------
(* AuthProvider: signIn, signOut, restoreToken *)

\* null: useState(null), and what getItem gives when there is no item
NoToken == "null"

\* calls of the context that can be in flight at the same time
AuthCalls == 1 .. 3

NoAuthCall ==
    [ op |-> "none",         \* "signIn" | "signOut" | "restoreToken"
      mobileNumber |-> NoToken,
      pc |-> "idle",         \* "issued" | "settled" | "done"
      token |-> NoToken ]    \* restoreToken: what getItem gave

NoAuth ==
    [ userToken |-> NoToken,
      item |-> NoToken,
      call |-> [c \in AuthCalls |-> NoAuthCall],
      signIns |-> {} ]       \* history: who called signIn, and for which number

AuthIdle == auth = NoAuth

\* the numbers the screens sign in with
TokenNumbers == {"9876543210", "9123456780"}

\* a call of the context begins: it hands its AsyncStorage operation to the
\* storage and awaits it
AuthBegin(c) ==
    /\ auth.call[c].pc = "idle"
    /\ \E op \in {"signIn", "signOut", "restoreToken"}, mobileNumber \in TokenNumbers :
         auth' = [auth EXCEPT !.call[c] =
                     [NoAuthCall EXCEPT !.op = op, !.pc = "issued",
                                        !.mobileNumber = IF op = "signIn" THEN mobileNumber
                                                         ELSE NoToken]]

\* the storage carries out the operation of a call: setItem, removeItem or
\* getItem on 'userToken'
AuthStorage(c) ==
    /\ auth.call[c].pc = "issued"
    /\ auth' = [auth EXCEPT
                  !.call[c].pc = "settled",
                  !.call[c].token = IF auth.call[c].op = "restoreToken" THEN auth.item
                                    ELSE @,
                  !.item = CASE auth.call[c].op = "signIn" -> auth.call[c].mobileNumber
                             [] auth.call[c].op = "signOut" -> NoToken
                             [] OTHER -> @]

\* the await of a call is resumed: setUserToken(mobileNumber),
\* setUserToken(null), or `if (token) setUserToken(token)`
AuthResume(c) ==
    /\ auth.call[c].pc = "settled"
    /\ auth' = [auth EXCEPT
                  !.call[c].pc = "done",
                  !.userToken =
                      CASE auth.call[c].op = "signIn" -> auth.call[c].mobileNumber
                        [] auth.call[c].op = "signOut" -> NoToken
                        [] auth.call[c].token # NoToken -> auth.call[c].token
                        [] OTHER -> @]

\* the storage operation of a call fails: the await throws and the call ends
\* without touching the state
AuthRejects(c) ==
    /\ auth.call[c].pc = "issued"
    /\ auth' = [auth EXCEPT !.call[c].pc = "done"]

\* a process starts, with or without a token left by an earlier session
AuthInit ==
    \E item \in TokenNumbers \cup {NoToken} : auth = [NoAuth EXCEPT !.item = item]

----------------------------------------------------------------------------
(* LoginScreen.handleLogin and RegisterScreen.handleRegister *)

NoForm == [pc |-> "idle", mobileNumber |-> NoToken, found |-> FALSE]

NoForms == [login |-> NoForm, register |-> [pc |-> "idle", newUser |-> DemoUser],
            alert |-> "none"]

FormsIdle == forms = NoForms

\* what can be typed into the login field: the numbers of Phones and one of
\* nine characters
TypedNumbers == Phones \cup {"987654321"}

\* what the registration form can hold: the users of Users, one with a number
\* of nine characters and one whose name was left empty
FormUsers ==
    Users \cup { [name |-> "Ravi", location |-> "Vizag", farmSize |-> "1",
                  mobileNumber |-> "912345678"],
                 [name |-> "", location |-> "Vizag", farmSize |-> "1",
                  mobileNumber |-> "9123456780"] }

HasRow(rows, mobileNumber) == \E r \in rows : r.phone_number = mobileNumber

\* signIn(mobileNumber) is called: the call hands setItem to the storage; the
\* history keeps who called, for which number, and whether the table had a
\* row for the number at that moment
SignInCalled(screen, mobileNumber, rows, found) ==
    LET free == {c \in AuthCalls : auth.call[c].pc = "idle"}
        c == CHOOSE i \in free : \A j \in free : i <= j
    IN  /\ free # {}
        /\ auth' = [auth EXCEPT
                      !.call[c] = [NoAuthCall EXCEPT !.op = "signIn", !.pc = "issued",
                                                     !.mobileNumber = mobileNumber],
                      !.signIns = @ \cup {[screen |-> screen,
                                            mobileNumber |-> mobileNumber,
                                            rowExists |-> HasRow(rows, mobileNumber),
                                            found |-> found]}]

\* handleLogin up to its first await: the length check, then loginUser
HandleLogin ==
    /\ forms.login.pc = "idle"
    /\ \E mobileNumber \in TypedNumbers :
         forms' = IF Len(mobileNumber) # 10
                  THEN [forms EXCEPT !.alert = "invalidMobile"]
                  ELSE [forms EXCEPT !.login = [pc |-> "loginUser",
                                                mobileNumber |-> mobileNumber,
                                                found |-> FALSE]]
    /\ UNCHANGED <<auth, storeVars>>

\* as LoginUserReturns, without `if (user)`
LoginUserReturnsUnchecked ==
    /\ forms.login.pc = "loginUser"
    /\ forms' = [forms EXCEPT !.login.pc = "changeLanguage"]
    /\ UNCHANGED <<auth, storeVars>>

\* loginUser resolved: `if (user)` goes on to changeLanguage, else the alert
LoginUserReturns ==
    /\ forms.login.pc = "loginUser"
    /\ LET user == loginUser(user_profile, forms.login.mobileNumber)
       IN  forms' = IF user # Null
                    THEN [forms EXCEPT !.login.pc = "changeLanguage",
                                       !.login.found = TRUE]
                    ELSE [forms EXCEPT !.login = NoForm, !.alert = "noAccountFound"]
    /\ UNCHANGED <<auth, storeVars>>

\* loginUser or changeLanguage rejected: handleLogin has no try, it ends there
HandleLoginRejects ==
    /\ forms.login.pc \in {"loginUser", "changeLanguage"}
    /\ forms' = [forms EXCEPT !.login = NoForm]
    /\ UNCHANGED <<auth, storeVars>>

\* changeLanguage resolved: the success alert and signIn(mobileNumber)
LoginSignsIn ==
    /\ forms.login.pc = "changeLanguage"
    /\ SignInCalled("login", forms.login.mobileNumber, user_profile, forms.login.found)
    /\ forms' = [forms EXCEPT !.login = NoForm, !.alert = "welcomeBackUser"]
    /\ UNCHANGED storeVars

\* handleRegister up to createUserProfile: every field filled, a number of ten
\* characters, the location permission
HandleRegister ==
    /\ forms.register.pc = "idle"
    /\ \E newUser \in FormUsers, granted \in BOOLEAN :
         forms' = CASE newUser.name = "" -> [forms EXCEPT !.alert = "fillAllFields"]
                    [] Len(newUser.mobileNumber) # 10 ->
                           [forms EXCEPT !.alert = "invalidMobile"]
                    [] ~granted -> forms
                    [] OTHER -> [forms EXCEPT !.register = [pc |-> "createUserProfile",
                                                            newUser |-> newUser]]
    /\ UNCHANGED <<auth, storeVars>>

\* createUserProfile resolved: the success alert and signIn(newUser.mobileNumber)
RegisterSignsIn ==
    /\ forms.register.pc = "createUserProfile"
    /\ LET newUser == forms.register.newUser
           rows == InsertOrReplaceUser(user_profile,
                                       UserRow(user_profile, newUser, "undefined"))
       IN  /\ user_profile' = rows
           /\ SignInCalled("register", newUser.mobileNumber, rows, TRUE)
    /\ forms' = [forms EXCEPT !.register = NoForms.register, !.alert = "accountCreated"]
    /\ UNCHANGED <<appVersion, db, ipc, schema, user_profile_new, disease_history,
                   initCall, migrationSteps, storeOps, lastCall, registered>>

\* createUserProfile rejected: the catch shows accountCreateFailed
HandleRegisterRejects ==
    /\ forms.register.pc = "createUserProfile"
    /\ forms' = [forms EXCEPT !.register = NoForms.register,
                              !.alert = "accountCreateFailed"]
    /\ UNCHANGED <<auth, storeVars>>

\* languages offered by the language screen
SelectableLanguages == {"te", "hi"}

\* UPDATE user_profile SET language = ? WHERE id = ?
updateUserLanguage(rows, id, language) ==
    {IF r.id = id THEN [r EXCEPT !.language = language] ELSE r : r \in rows}

\* LanguageSelectionScreen.handleContinue: getUserProfile(), and with a profile
\* updateUserLanguage(user.id, selectedLang)
HandleContinue ==
    /\ appVersion = 2 /\ InUse
    /\ storeOps < MaxStoreOps
    /\ \E selectedLang \in SelectableLanguages :
         LET user == getUserProfile(user_profile)
         IN  /\ user_profile' = IF user # Null
                                 THEN updateUserLanguage(user_profile, user.id, selectedLang)
                                 ELSE user_profile
             /\ lastCall' = [op |-> "handleContinue", selectedLang |-> selectedLang,
                             user |-> user]
    /\ storeOps' = storeOps + 1
    /\ ipc' = "ready"
    /\ UNCHANGED <<appVersion, db, schema, user_profile_new, disease_history,
                   initCall, migrationSteps, registered>>

\* the awaits of the signIn calls the screens started
SignInSettles ==
    /\ \E c \in AuthCalls : AuthStorage(c) \/ AuthRejects(c) \/ AuthResume(c)
    /\ UNCHANGED <<forms, storeVars>>

----------------------------------------------------------------------------
(* DataSetService: validateCoordinates, getWeatherData, fetchDataForML *)

\* JavaScript values handed to fetchDataForML: a number (in whole degrees or
\* acres), NaN, or undefined
Number(n) == [kind |-> "number", value |-> n]
NaN == [kind |-> "NaN"]
Undefined == [kind |-> "undefined"]

\* parseFloat of a number is the number, of NaN or undefined it is NaN
parseFloat(x) == IF x.kind = "number" THEN x ELSE NaN

isNaN(x) == x.kind = "NaN"

LatArguments == {Number(-91), Number(-90), Number(17), Number(90), Number(91), NaN, Undefined}
LonArguments == {Number(-181), Number(-180), Number(83), Number(180), Number(181), NaN}
AcresArguments == {Number(-1), Number(0), Number(2), NaN, Undefined}

\* as validateCoordinates, without the check of the longitude
validateCoordinatesLatitudeOnly(lat, lon) ==
    LET latitude == parseFloat(lat)
        longitude == parseFloat(lon)
    IN  CASE isNaN(latitude) \/ isNaN(longitude) ->
                 [error |-> "Invalid coordinates: lat and lon must be numbers"]
          [] latitude.value < -90 \/ latitude.value > 90 ->
                 [error |-> "Invalid latitude: must be between -90 and 90"]
          [] OTHER -> [error |-> "none", lat |-> latitude, lon |-> longitude]

\* validateCoordinates: the parsed pair, or the error it throws
validateCoordinates(lat, lon) ==
    LET latitude == parseFloat(lat)
        longitude == parseFloat(lon)
    IN  CASE isNaN(latitude) \/ isNaN(longitude) ->
                 [error |-> "Invalid coordinates: lat and lon must be numbers"]
          [] latitude.value < -90 \/ latitude.value > 90 ->
                 [error |-> "Invalid latitude: must be between -90 and 90"]
          [] longitude.value < -180 \/ longitude.value > 180 ->
                 [error |-> "Invalid longitude: must be between -180 and 180"]
          [] OTHER -> [error |-> "none", lat |-> latitude, lon |-> longitude]

\* how a request can end: the response is used, the response has no daily
\* series (weather only), fetch rejects, or the response is not OK
Rejections == {"networkError", "notOk"}

NoDataset ==
    [ pc |-> "idle",          \* "awaiting" | "returned" | "failed"
      acres |-> Undefined, lat |-> Undefined, lon |-> Undefined,
      requests |-> {},        \* requests issued by the call
      soil |-> "none",        \* "pending" | "ok" | a rejection
      weather |-> "none",     \* "pending" | "ok" | "noDaily" | a rejection
      error |-> "none",
      fallback_weather |-> FALSE ]

DatasetIdle == dataset = NoDataset

\* fetchDataForML up to its await: both validations, then getSoilData and
\* getWeatherData are called and each issues its request
FetchDataForML ==
    /\ dataset.pc \in {"idle", "returned", "failed"}
    /\ \E acres \in AcresArguments, lat \in LatArguments, lon \in LonArguments :
         LET coords == validateCoordinates(lat, lon)
             acreage == parseFloat(acres)
             call == [NoDataset EXCEPT !.acres = acres, !.lat = lat, !.lon = lon]
         IN  dataset' =
               CASE coords.error # "none" ->
                        [call EXCEPT !.pc = "failed", !.error = coords.error]
                 [] isNaN(acreage) \/ acreage.value <= 0 ->
                        [call EXCEPT !.pc = "failed",
                                     !.error = "Invalid acres: must be a positive number"]
                 [] OTHER ->
                        [call EXCEPT !.pc = "awaiting", !.requests = {"soil", "weather"},
                                     !.soil = "pending", !.weather = "pending"]

\* getSoilData: the request ends; a rejection is logged and thrown again
SoilSettles ==
    /\ dataset.soil = "pending"
    /\ \E outcome \in {"ok"} \cup Rejections : dataset' = [dataset EXCEPT !.soil = outcome]

\* getWeatherData: the request ends; a response without a daily series gives
\* the fallback features, a rejection is logged and thrown again
WeatherSettles ==
    /\ dataset.weather = "pending"
    /\ \E outcome \in {"ok", "noDaily"} \cup Rejections :
         dataset' = [dataset EXCEPT !.weather = outcome]

\* Promise.all rejects with the first rejection: the catch logs and throws
FetchDataForMLFails ==
    /\ dataset.pc = "awaiting"
    /\ dataset.soil \in Rejections \/ dataset.weather \in Rejections
    /\ dataset' = [dataset EXCEPT
                     !.pc = "failed",
                     !.error = IF dataset.soil \in Rejections THEN "soil" ELSE "weather"]

\* Promise.all resolved: the dataset, fallback_weather: weatherData.fallback || false
FetchDataForMLReturns ==
    /\ dataset.pc = "awaiting"
    /\ dataset.soil = "ok" /\ dataset.weather \in {"ok", "noDaily"}
    /\ dataset' = [dataset EXCEPT !.pc = "returned",
                                  !.fallback_weather = (dataset.weather = "noDaily")]

----------------------------------------------------------------------------
(* MLService: recommendCrops *)

MathMin(a, b) == IF a <= b THEN a ELSE b

\* initializeCropDatabase; minArea in quarters of an acre
CropDatabase ==
    << [name |-> "Rice", seasons |-> {"kharif"},
        suitableSoils |-> {"Clay", "Loam", "Clay Loam"},
        tempRange |-> <<20, 35>>, minArea |-> 2],
       [name |-> "Wheat", seasons |-> {"rabi"},
        suitableSoils |-> {"Loam", "Clay Loam", "Sandy Loam"},
        tempRange |-> <<15, 25>>, minArea |-> 4],
       [name |-> "Tomato", seasons |-> {"rabi", "summer"},
        suitableSoils |-> {"Loam", "Sandy Loam"},
        tempRange |-> <<18, 29>>, minArea |-> 1],
       [name |-> "Cotton", seasons |-> {"kharif"},
        suitableSoils |-> {"Clay", "Clay Loam", "Sandy Loam"},
        tempRange |-> <<21, 30>>, minArea |-> 8] >>

\* what the form can hand over: "" and 0 are falsy; farmArea in quarters of
\* an acre
FarmInputs ==
    [ soilType : {"", "Clay", "Loam", "Clay Loam", "Sandy Loam", "Sandy"},
      season : {"", "kharif", "rabi", "summer", "zaid"},
      temperature : {0, 10, 20, 25, 30, 36},
      farmArea : {0, 1, 2, 4, 8} ]

\* extractFeaturesForCropRecommendation: `||` puts the default in place of a
\* falsy value
extractFeaturesForCropRecommendation(farmData) ==
    [ soilType |-> IF farmData.soilType = "" THEN "Loam" ELSE farmData.soilType,
      area |-> IF farmData.farmArea = 0 THEN 4 ELSE farmData.farmArea,
      season |-> IF farmData.season = "" THEN "kharif" ELSE farmData.season,
      temperature |-> IF farmData.temperature = 0 THEN 25 ELSE farmData.temperature ]

\* calculateCropSuitability, the score in tenths: 0.3 + 0.3 is 0.6 in binary
\* floating point as well, and every other sum of the four terms is away from
\* 0.6 by a tenth or more
calculateCropSuitability(crop, features) ==
    LET soil == IF features.soilType \in crop.suitableSoils THEN 3 ELSE 0
        season == IF features.season \in crop.seasons THEN 3 ELSE 0
        climate == IF /\ features.temperature >= crop.tempRange[1]
                      /\ features.temperature <= crop.tempRange[2] THEN 2 ELSE 0
        area == IF features.area >= crop.minArea THEN 2 ELSE 0
    IN  [score |-> MathMin(soil + season + climate + area, 10)]

\* as Recommended, with >= in place of >
RecommendedFromSix(suitability) == suitability.score >= 6

\* suitability.score > 0.6
Recommended(suitability) == suitability.score > 6

\* the loop over the table: the crops that are pushed, in table order
RECURSIVE Pushed(_, _)
Pushed(i, features) ==
    IF i > Len(CropDatabase) THEN <<>>
    ELSE LET suitability == calculateCropSuitability(CropDatabase[i], features)
         IN  (IF Recommended(suitability)
              THEN <<[crop |-> CropDatabase[i].name,
                      suitabilityScore |-> suitability.score]>>
              ELSE <<>>) \o Pushed(i + 1, features)

\* sort((a, b) => b.suitabilityScore - a.suitabilityScore): stable, so equal
\* scores keep the order of the table
RECURSIVE SortByScore(_)
SortByScore(recs) ==
    IF recs = <<>> THEN <<>>
    ELSE LET first == CHOOSE i \in DOMAIN recs :
                         /\ \A j \in DOMAIN recs :
                               recs[j].suitabilityScore <= recs[i].suitabilityScore
                         /\ \A j \in 1 .. (i - 1) :
                               recs[j].suitabilityScore < recs[i].suitabilityScore
             others == [k \in 1 .. (Len(recs) - 1) |->
                          IF k < first THEN recs[k] ELSE recs[k + 1]]
         IN  <<recs[first]>> \o SortByScore(others)

\* getRuleBasedCropRecommendations: push, sort, slice(0, 5)
getRuleBasedCropRecommendations(features) ==
    LET sorted == SortByScore(Pushed(1, features))
    IN  SubSeq(sorted, 1, MathMin(5, Len(sorted)))

NoAdvice ==
    [ called |-> FALSE,
      features |-> extractFeaturesForCropRecommendation(
                       [soilType |-> "", season |-> "", temperature |-> 0, farmArea |-> 0]),
      recommendations |-> <<>> ]

AdviceIdle == advice = NoAdvice

\* recommendCrops(farmData)
RecommendCrops ==
    \E farmData \in FarmInputs :
        LET features == extractFeaturesForCropRecommendation(farmData)
        IN  advice' = [called |-> TRUE, features |-> features,
                       recommendations |-> getRuleBasedCropRecommendations(features)]

SvcIdle == DatasetIdle /\ AdviceIdle

RestIdle == CutIdle /\ OverlapIdle /\ AuthIdle /\ FormsIdle /\ SvcIdle

MoreIdle == BootIdle /\ ConnIdle /\ RaceIdle /\ GuideIdle /\ RestIdle

----------------------------------------------------------------------------
(* Specifications *)

\* the recommendation components over a working store
Init == OrchInit /\ KeyIdle /\ cacheLog = <<>> /\ StoreIdle /\ MoreIdle
Next == OrchNext /\ UNCHANGED <<keyVars, cacheLog, storeVars, moreVars>>
Spec == Init /\ [][Next]_vars

\* the same, with stored payloads that can become unreadable
NextCorrupt ==
    \/ OrchNext /\ UNCHANGED <<keyVars, cacheLog, storeVars, moreVars>>
    \/ CorruptRow /\ UNCHANGED <<storeVars, moreVars>>
SpecCorrupt == Init /\ [][NextCorrupt]_vars

\* key derivation over pairs of coordinates
InitKey == OrchIdle /\ KeyInit /\ cacheLog = <<>> /\ StoreIdle /\ MoreIdle
NextKey ==
    /\ ScreenDeriveKeys \/ AppDeriveKeys
    /\ UNCHANGED <<orchVars, cacheLog, storeVars, moreVars>>
SpecKey == InitKey /\ [][NextKey]_vars

\* the cache called directly
InitCache == OrchIdle /\ KeyIdle /\ cacheLog = <<>> /\ StoreIdle /\ MoreIdle
NextCache ==
    \/ CachePutCall /\ UNCHANGED <<storeVars, moreVars>>
    \/ CacheGetCall /\ UNCHANGED <<storeVars, moreVars>>
    \/ Tick /\ UNCHANGED <<keyVars, cacheLog, storeVars, moreVars>>
SpecCache == InitCache /\ [][NextCache]_vars

\* the schema store from a first start of version 1 to version 2 in use
InitStore == OrchIdle /\ KeyIdle /\ cacheLog = <<>> /\ StoreInit /\ MoreIdle
NextStore ==
    \/ StoreNext /\ UNCHANGED <<orchVars, keyVars, cacheLog, moreVars>>
    \/ StoreCachePut /\ UNCHANGED <<keyVars, cacheLog, moreVars>>
SpecStore == InitStore /\ [][NextStore]_vars

\* a process from its start: the bootstrap, initialize() and getRecommendations
InitBoot == OrchInit /\ KeyIdle /\ cacheLog = <<>> /\ BootInit /\ ConnIdle /\ RaceIdle /\ GuideIdle /\ RestIdle
NextBoot ==
    \/ BootStart /\ UNCHANGED <<orchVars, keyVars, cacheLog, connVars, raceVars, guideVars, restVars>>
    \/ BootInitializeStep /\ UNCHANGED <<orchVars, keyVars, cacheLog, connVars, raceVars, guideVars, restVars>>
    \/ BootInitialized /\ UNCHANGED <<orchVars, keyVars, cacheLog, connVars, raceVars, guideVars, restVars>>
    \/ BootInitializeFailed /\ UNCHANGED <<orchVars, keyVars, cacheLog, connVars, raceVars, guideVars, restVars>>
    \/ BootScreenMount /\ UNCHANGED <<orchVars, keyVars, cacheLog, connVars, raceVars, guideVars, restVars>>
    \/ BootOrch /\ UNCHANGED <<keyVars, cacheLog, storeVars, connVars, raceVars, guideVars, restVars>>
SpecBoot == InitBoot /\ [][NextBoot]_vars

\* the same, with statements of initialize() that can fail
NextFault ==
    \/ NextStore
    \/ FaultNext /\ UNCHANGED <<orchVars, keyVars, cacheLog, moreVars>>
SpecFault == InitStore /\ [][NextFault]_vars

\* getDb called by functions of DatabaseService that run at the same time
InitConn == OrchIdle /\ KeyIdle /\ cacheLog = <<>> /\ BootIdle /\ ConnInit /\ RaceIdle /\ GuideIdle /\ RestIdle
NextConn ==
    /\ \E c \in Callers : GetDbCheck(c) \/ GetDbOpened(c)
    /\ UNCHANGED <<orchVars, keyVars, cacheLog, boot, raceVars, guideVars, restVars, appVersion, ipc, schema,
                   user_profile, user_profile_new, disease_history, initCall,
                   migrationSteps, storeOps, lastCall, registered>>
SpecConn == InitConn /\ [][NextConn]_vars

\* two getRecommendations invocations that overlap, online, over a working store
InitRace == OrchIdle /\ KeyIdle /\ cacheLog = <<>> /\ StoreIdle /\ BootIdle
            /\ ConnIdle /\ RaceIdle /\ GuideIdle /\ RestIdle
NextRace ==
    /\ \/ \E w \in Writers : WriterStart(w) \/ WriterFetched(w) \/ WriterPut(w)
       \/ RaceTick
    /\ UNCHANGED <<mounted, pc, inv, calls, origin, keyVars, cacheLog, storeVars,
                   boot, connVars, guideVars, restVars>>
SpecRace == InitRace /\ [][NextRace]_vars

\* the AgriculturalAPI of the integration guide
NextGuide ==
    /\ GetCropRecommendations \/ GuideTick \/ GuideDamage
    /\ UNCHANGED <<orchVars, keyVars, cacheLog, storeVars, boot, connVars, raceVars, restVars>>
SpecGuide == InitCache /\ [][NextGuide]_vars

\* the schema store, with a process that can end in the middle of initialize()
NextKill ==
    \/ StoreNext /\ UNCHANGED <<orchVars, keyVars, cacheLog, moreVars>>
    \/ Kill /\ UNCHANGED <<orchVars, keyVars, cacheLog, olderVars, overlap, auth, forms,
                           svcVars>>
SpecKill == InitStore /\ [][NextKill]_vars

\* calls of the auth context whose awaits overlap
InitAuth == OrchIdle /\ KeyIdle /\ cacheLog = <<>> /\ StoreIdle /\ BootIdle /\ ConnIdle
            /\ RaceIdle /\ GuideIdle /\ CutIdle /\ OverlapIdle /\ AuthInit /\ FormsIdle
            /\ SvcIdle
NextAuth ==
    /\ \E c \in AuthCalls :
         AuthBegin(c) \/ AuthStorage(c) \/ AuthRejects(c) \/ AuthResume(c)
    /\ UNCHANGED <<orchVars, keyVars, cacheLog, storeVars, olderVars, cut, overlap,
                   forms, svcVars>>
SpecAuth == InitAuth /\ [][NextAuth]_vars

\* the login and registration screens over the store of a started process
InitForms == OrchIdle /\ KeyIdle /\ cacheLog = <<>> /\ StoreIdle /\ MoreIdle
NextForms ==
    /\ \/ HandleLogin
       \/ LoginUserReturns
       \/ HandleLoginRejects
       \/ LoginSignsIn
       \/ HandleRegister
       \/ RegisterSignsIn
       \/ HandleRegisterRejects
       \/ SignInSettles
    /\ UNCHANGED <<orchVars, keyVars, cacheLog, olderVars, cut, overlap, svcVars>>
SpecForms == InitForms /\ [][NextForms]_vars

\* registrations, repeated or not, and changes of the language
NextRepeat ==
    /\ CreateUserProfile \/ HandleContinue
    /\ UNCHANGED <<orchVars, keyVars, cacheLog, moreVars>>
SpecRepeat == InitForms /\ [][NextRepeat]_vars

\* fetchDataForML with requests that can fail
NextData ==
    /\ \/ FetchDataForML
       \/ SoilSettles
       \/ WeatherSettles
       \/ FetchDataForMLFails
       \/ FetchDataForMLReturns
    /\ UNCHANGED <<orchVars, keyVars, cacheLog, storeVars, olderVars, cut, overlap, auth,
                   forms, advice>>
SpecData == InitForms /\ [][NextData]_vars

\* recommendCrops over what the form can hold
NextCrops ==
    /\ RecommendCrops
    /\ UNCHANGED <<orchVars, keyVars, cacheLog, storeVars, olderVars, cut, overlap, auth,
                   forms, dataset>>
SpecCrops == InitForms /\ [][NextCrops]_vars

\* the recommendation components with a connectivity check and cache calls
\* that can reject; every promise that is awaited settles
NextLive ==
    /\ Start \/ Tick \/ Settle
    /\ UNCHANGED <<keyVars, cacheLog, storeVars, moreVars>>
SpecLive ==
    /\ Init /\ [][NextLive]_vars
    /\ WF_vars(Settle /\ UNCHANGED <<keyVars, cacheLog, storeVars, moreVars>>)

\* two initialize() calls whose statements interleave
InitOverlap == OrchIdle /\ KeyIdle /\ cacheLog = <<>> /\ BootIdle /\ ConnIdle
               /\ RaceIdle /\ GuideIdle /\ CutIdle /\ OverlapInit /\ AuthIdle
               /\ FormsIdle /\ SvcIdle
NextOverlap ==
    /\ \E c \in Initializers :
          \/ OverlapStart(c)
          \/ OverlapCreateTables(c)
          \/ OverlapCheckColumn(c)
          \/ OverlapCreateShadow(c)
          \/ OverlapCopy(c)
          \/ OverlapDrop(c)
          \/ OverlapRename(c)
    /\ UNCHANGED <<orchVars, keyVars, cacheLog, olderVars, cut, auth, forms, svcVars,
                   appVersion, db, ipc,
                   disease_history, initCall, migrationSteps, storeOps, lastCall,
                   registered>>
SpecOverlap == InitOverlap /\ [][NextOverlap]_vars

----------------------------------------------------------------------------
(* Properties of the fallback orchestrator *)

\* the key under which the offline path of the mounted component looks up
ReadKey(c) == IF mounted = "screen" THEN ScreenOfflineKey(c) ELSE AppOfflineKey(c)

RowsFor(table, key) == {r \in table : r.location = key}

Completed == pc = "done"

OfflineMessage == Alert("Offline", "You are offline and no recommendations are cached.")

\* C1: when connectivity is reported online and the remote fetch succeeds with
\* payload P, then at completion the cache holds P under the key derived from
\* the request coordinates and the result delivered to the caller is P.
C1_OnlineSuccessCachesAndDelivers ==
    (Completed /\ inv.reported = "online" /\ inv.fetch = "ok") =>
        /\ inv.hasLoc /\ inv.hasKey
        /\ \E r \in weather_cache :
              /\ r.location = ReadKey(inv.loc)
              /\ JSONparse(r.data) = [ok |-> TRUE, val |-> inv.response]
        /\ inv.delivered = inv.response
        /\ recommendations = inv.response
        /\ ~loading

\* C1 witness: an online invocation completed with {temp:30} for a key that
\* the cache did not hold before.
C1_Witness ==
    /\ Completed /\ inv.reported = "online" /\ inv.fetch = "ok"
    /\ inv.response = PayloadTemp30
    /\ RowsFor(inv.cacheAtStart, ReadKey(inv.loc)) = {}
    /\ RowsFor(weather_cache, ReadKey(inv.loc)) # {}

\* C2: when connectivity is reported offline and the cache holds an entry for
\* the derived key, the invocation delivers exactly the cached payload, which
\* is the payload delivered online when the entry was written, and sends no
\* network request, whatever the age of the entry.
C2_OfflineHitDeliversCached ==
    (Completed /\ inv.reported = "offline" /\ inv.hasKey
        /\ RowsFor(inv.cacheAtStart, inv.key) # {}) =>
        /\ \A r \in RowsFor(inv.cacheAtStart, inv.key) :
              /\ JSONparse(r.data) = [ok |-> TRUE, val |-> inv.delivered]
              /\ \E o \in origin : o.id = r.id /\ o.delivered = inv.delivered
        /\ recommendations = inv.delivered
        /\ inv.lookup = "hit"
        /\ inv.alert = NoAlert
        /\ inv.netRequests = 0
        /\ ~loading

\* C2 witness: a nested payload served offline from an entry that is at
\* least MaxDays days old.
C2_Witness ==
    /\ Completed /\ inv.reported = "offline" /\ inv.lookup = "hit"
    /\ inv.delivered = PayloadNested
    /\ \E r \in RowsFor(weather_cache, inv.key) : now - r.timestamp >= MaxDays

\* C3: when connectivity is reported offline and the cache holds no entry for
\* the derived key, the invocation ends with the explicit 'Offline' alert; it
\* delivers nothing (no empty object, no default data) and it completes.
C3_OfflineMissReportsUnavailable ==
    (Completed /\ inv.reported = "offline" /\ inv.hasKey
        /\ RowsFor(inv.cacheAtStart, inv.key) = {}) =>
        /\ inv.alert = OfflineMessage
        /\ inv.lookup = "miss"
        /\ inv.delivered = JsUndefined
        /\ recommendations = inv.recsAtStart
        /\ inv.netRequests = 0
        /\ ~loading

\* C3 witness: an offline miss for one key while the cache holds another key
\* and the screen still shows an earlier result.
C3_Witness ==
    /\ Completed /\ inv.reported = "offline" /\ inv.lookup = "miss"
    /\ inv.alert = OfflineMessage
    /\ weather_cache # {}
    /\ recommendations = PayloadTemp28

\* C4: when connectivity is reported online and the remote fetch fails, the
\* invocation ends with an error alert, has not read the cache, has delivered
\* nothing (also when the key is cached), has left the cache unchanged, and
\* the caller can invoke it again.
C4_OnlineFailureSurfacesError ==
    (Completed /\ inv.reported = "online" /\ inv.fetch \in FetchFailures) =>
        /\ inv.alert.title = "Error"
        /\ inv.cacheReads = 0 /\ inv.cacheWrites = 0
        /\ inv.delivered = JsUndefined
        /\ recommendations = inv.recsAtStart
        /\ weather_cache = inv.cacheAtStart
        /\ ~loading
        /\ calls < MaxCalls => ENABLED Start

\* C4 witness: a non-OK status while the cache holds an entry for the
\* coordinates of the request.
C4_Witness ==
    /\ Completed /\ inv.reported = "online" /\ inv.fetch = "http_error"
    /\ inv.hasLoc
    /\ RowsFor(weather_cache, ReadKey(inv.loc)) # {}

----------------------------------------------------------------------------
(* Properties of the cache key *)

\* x and y have the same sign and lie in the same interval [n - 1/2, n + 1/2)
\* of 1e-4 degree
RoundsAlike(x, y) ==
    /\ x < 0 <=> y < 0
    /\ \E n \in {Abs(x) \div 10, Abs(x) \div 10 + 1} :
          /\ 10 * n - 5 <= Abs(x) /\ Abs(x) < 10 * n + 5
          /\ 10 * n - 5 <= Abs(y) /\ Abs(y) < 10 * n + 5

\* x and y have the same sign and the same digits up to the 4th decimal
AgreeToFourDecimals(x, y) ==
    /\ x < 0 <=> y < 0
    /\ Abs(x) \div 10 = Abs(y) \div 10

\* C5 (as amended): the key written for one coordinate pair equals the key
\* read for another exactly when their latitudes and their longitudes have
\* the same sign and round to the same multiple of 1e-4; in particular the
\* online and the offline path derive the same key for the same pair.
C5_SameKeyIffRoundAlike ==
    keyOut.component # "none" =>
        ( keyOut.written = keyOut.read
          <=> /\ RoundsAlike(keyIn[1].latitude, keyIn[2].latitude)
              /\ RoundsAlike(keyIn[1].longitude, keyIn[2].longitude) )

\* C5 witness: two different coordinate pairs that got the same key.
C5_Witness ==
    /\ keyOut.component # "none"
    /\ keyIn[1].latitude # keyIn[2].latitude
    /\ keyIn[1].longitude # keyIn[2].longitude
    /\ keyOut.written = keyOut.read

\* C5 as stated: two coordinate pairs that differ only beyond the 4th decimal
\* place are mapped to the same key.
C5_SameKeyBeyondFourthDecimal ==
    ( /\ keyOut.component # "none"
      /\ AgreeToFourDecimals(keyIn[1].latitude, keyIn[2].latitude)
      /\ AgreeToFourDecimals(keyIn[1].longitude, keyIn[2].longitude) )
    => keyOut.written = keyOut.read

----------------------------------------------------------------------------
(* Properties of the keyed cache *)

PutsOn(key) ==
    {i \in 1..Len(cacheLog) : cacheLog[i].op = "put" /\ cacheLog[i].key = key}

\* C6: a put of any payload under any key, followed immediately by a get of
\* that key, returns a payload equal to the one put.
C6_PutThenGetRoundTrip ==
    \A i \in 1..(Len(cacheLog) - 1) :
        ( /\ cacheLog[i].op = "put" /\ cacheLog[i + 1].op = "get"
          /\ cacheLog[i + 1].key = cacheLog[i].key )
        => /\ cacheLog[i + 1].found
           /\ cacheLog[i + 1].data = cacheLog[i].data

\* C6 witness: the nested payload was put over an older entry and read back.
C6_Witness ==
    \E i \in 2..(Len(cacheLog) - 1) :
        /\ cacheLog[i].op = "put" /\ cacheLog[i].data = PayloadNested
        /\ cacheLog[i - 1].op = "put" /\ cacheLog[i - 1].key = cacheLog[i].key
        /\ cacheLog[i + 1].op = "get" /\ cacheLog[i + 1].key = cacheLog[i].key
        /\ cacheLog[i + 1].found

\* C7: after any sequence of cache writes there is at most one row per key,
\* and a key that was written holds exactly the payload of its last write:
\* that one is retrievable and no earlier one is.
C7_OneEntryPerKeyLastWriteWins ==
    \A key \in CacheKeys :
        /\ Cardinality(RowsFor(weather_cache, key)) <= 1
        /\ PutsOn(key) # {} =>
              LET last == cacheLog[SetMax(PutsOn(key))].data IN
              /\ Cardinality(RowsFor(weather_cache, key)) = 1
              /\ \A r \in RowsFor(weather_cache, key) :
                    JSONparse(r.data) = [ok |-> TRUE, val |-> last]
              /\ getRecommendationsCache(weather_cache, key).result.found
              /\ getRecommendationsCache(weather_cache, key).result.data = last

\* C7 witness: one key written twice with different payloads, another key
\* written as well.
C7_Witness ==
    \E key \in CacheKeys :
        /\ \E i, j \in PutsOn(key) : i < j /\ cacheLog[i].data # cacheLog[j].data
        /\ Cardinality(weather_cache) = 2

\* C8: when the stored payload of the key cannot be deserialized, the lookup
\* gives 'not found' without raising and removes the row, so that a later
\* lookup finds nothing; the orchestrator ends with the offline 'no data'
\* alert and not with an error.
C8_CorruptPayloadIsNotFound ==
    ( /\ Completed /\ inv.reported = "offline" /\ inv.cacheReads > 0
      /\ \E r \in RowsFor(inv.cacheAtLookup, inv.key) : ~JSONparse(r.data).ok )
    => /\ inv.lookup = "miss"
       /\ inv.alert = OfflineMessage
       /\ inv.delivered = JsUndefined
       /\ RowsFor(weather_cache, inv.key) = {}
       /\ getRecommendationsCache(weather_cache, inv.key).result = NotFound
       /\ ~loading

\* C8 witness: an offline lookup met an unreadable row, which is gone now,
\* while the readable row of another key is still there.
C8_Witness ==
    /\ Completed /\ inv.reported = "offline" /\ inv.lookup = "miss"
    /\ \E r \in RowsFor(inv.cacheAtLookup, inv.key) : ~JSONparse(r.data).ok
    /\ RowsFor(weather_cache, inv.key) = {}
    /\ \E r \in weather_cache : JSONparse(r.data).ok

----------------------------------------------------------------------------
(* Properties of the schema store *)

\* the columns of a user row that exist in both shapes
OldColumns(r) ==
    [id |-> r.id, name |-> r.name, location |-> r.location,
     farmSize |-> r.farmSize, phone_number |-> r.phone_number]

Returned == ipc = "done"

\* the store had its three tables, user_profile with the language column
WasCurrent(before) ==
    /\ HasColumn(before.schema.user_profile, "language")
    /\ before.schema.disease_history # NoTable
    /\ before.schema.weather_cache # NoTable

C10_InitializeIdempotent ==
    /\ \A step \in DOMAIN migrationSteps : migrationSteps[step] <= 1
    /\ Returned =>
          /\ (initCall.version = 2 /\ WasCurrent(initCall.before)) =>
                Snapshot = initCall.before
          /\ (initCall.version = 1 /\ initCall.before.schema # EmptySchema) =>
                Snapshot = initCall.before
          /\ (initCall.version = 2 /\ initCall.before.schema = EmptySchema) =>
                schema = CurrentSchema
          /\ disease_history = initCall.before.disease_history
          /\ weather_cache = initCall.before.weather_cache
          /\ {OldColumns(r) : r \in user_profile}
                = {OldColumns(r) : r \in initCall.before.user_profile}
          /\ initCall.version = 2 =>
                /\ initCall.columnChecked
                /\ initCall.statements = IF initCall.columnFound THEN 0 ELSE 4
                /\ initCall.columnFound
                      <=> ( \/ initCall.before.schema.user_profile = NoTable
                            \/ HasColumn(initCall.before.schema.user_profile,
                                         "language") )

\* C10 witness: initialize() returned from a call on a store that had been
\* migrated before and holds rows in all three tables.
C10_Witness ==
    /\ Returned /\ initCall.version = 2 /\ initCall.columnFound
    /\ migrationSteps.rename = 1
    /\ user_profile # {} /\ disease_history # {} /\ weather_cache # {}
    /\ Snapshot = initCall.before

----------------------------------------------------------------------------
(* Properties of profiles and detections *)

\* the language argument of the last createUserProfile for this number
LastLanguage(mobileNumber) ==
    {g.language : g \in {h \in registered : h.mobileNumber = mobileNumber}}

\* C13: after registering a user with phone number P with no language given,
\* loginUser(P) returns a profile whose phone number is P and whose language
\* is 'en'; loginUser of a never-registered number returns null.
C13_RegisterThenLogin ==
    lastCall.op = "loginUser" =>
        /\ LastLanguage(lastCall.mobileNumber) = {} => lastCall.result = Null
        /\ LastLanguage(lastCall.mobileNumber) = {"undefined"} =>
              /\ lastCall.result # Null
              /\ lastCall.result.mobileNumber = lastCall.mobileNumber
              /\ "language" \in DOMAIN lastCall.result
              /\ lastCall.result.language = DefaultLanguage

RowsOf(rows, mobileNumber) == {r \in rows : r.phone_number = mobileNumber}

\* C14: no two user_profile rows share a phone number (a row without a number
\* holds NULL, which is no number); a createUserProfile for a number that is
\* already registered adds no row, and afterwards the one row of that number
\* holds the name, location and farm size just supplied.
C14_PhoneNumberIsUnique ==
    /\ \A r, q \in user_profile :
          (r.phone_number # "NULL" /\ r.phone_number = q.phone_number) => r = q
    /\ (lastCall.op = "createUserProfile" /\ lastCall.user.mobileNumber # "undefined") =>
          /\ Cardinality(RowsOf(user_profile, lastCall.user.mobileNumber)) = 1
          /\ \A r \in RowsOf(user_profile, lastCall.user.mobileNumber) :
                /\ r.name = lastCall.user.name
                /\ r.location = lastCall.user.location
                /\ r.farmSize = lastCall.user.farmSize
          /\ Cardinality(user_profile) =
                IF lastCall.had THEN lastCall.countBefore ELSE lastCall.countBefore + 1

\* C14 witness: a second registration of 9876543210 under another name left
\* two rows in the table, one for each number.
C14_Witness ==
    /\ lastCall.op = "createUserProfile" /\ lastCall.had
    /\ lastCall.user.name = "Asha R"
    /\ \E r \in user_profile : r.name = "Asha R"
    /\ \A r \in user_profile : r.name # "Asha"
    /\ Cardinality(user_profile) = 2

\* the step is a call of addDiseaseDetection
DetectionCall == lastCall'.op = "addDiseaseDetection" /\ storeOps' = storeOps + 1

\* C15: the detection history is append-only.  No step of the store, the
\* steps of initialize() and of its migration included, removes or changes a
\* record; a step adds a record only if it is an addDiseaseDetection, and
\* every addDiseaseDetection adds exactly one record, under a new id, with
\* the disease name given (never NULL) and the time of the call.
C15_DetectionsAppendOnly ==
    [][ /\ disease_history \subseteq disease_history'
        /\ disease_history' # disease_history => DetectionCall
        /\ DetectionCall =>
              /\ Cardinality(disease_history' \ disease_history) = 1
              /\ \A r \in disease_history' \ disease_history :
                    /\ r.diseaseName = lastCall'.diseaseName
                    /\ r.diseaseName \in DiseaseNames
                    /\ r.timestamp = now
                    /\ \A q \in disease_history : q.id # r.id ]_vars

\* C15 witness: a detection recorded before the migration is still there,
\* unchanged, after the migration and a second detection.
C15_Witness ==
    /\ lastCall.op = "addDiseaseDetection"
    /\ initCall.version = 2 /\ migrationSteps.rename = 1
    /\ initCall.before.disease_history # {}
    /\ initCall.before.disease_history \subseteq disease_history
    /\ Cardinality(disease_history) = 2

----------------------------------------------------------------------------
(* Properties of a failing initialize() *)

Raised == ipc = "failed"

IsIn(seq, x) == \E i \in 1..Len(seq) : seq[i] = x

\* C12: a failing copy step does not make initialize() raise: the call goes
\* on to the drop and the rename, and when these succeed it returns with the
\* shadow table renamed into place; a failure of the shadow-table create, of
\* the drop or of the rename (or of the table creation) makes it raise, and
\* it raises for no other reason.
C12_CopyFailureIsNotFatal ==
    initCall.version = 2 =>
        /\ Raised <=> initCall.raised
        /\ initCall.raised <=>
              \E x \in {"create", "shadow", "drop", "rename"} : IsIn(initCall.failed, x)
        /\ initCall.failed = <<"copy">> =>
              /\ ipc \in {"drop", "rename", "done", "ready"}
              /\ InUse =>
                    /\ initCall.ran = <<"shadow", "drop", "rename">>
                    /\ schema.user_profile = NewUserCols
                    /\ schema.user_profile_new = NoTable

\* C12 witness: initialize() returned from a migration whose copy failed; the
\* table has the new shape and the rows of the old table are gone.
C12_Witness ==
    /\ ipc = "done" /\ initCall.version = 2
    /\ initCall.failed = <<"copy">>
    /\ initCall.before.user_profile # {}
    /\ user_profile = {}

----------------------------------------------------------------------------
(* Properties of the bootstrap *)

\* C11: if table creation fails, initialize() raises, and the bootstrap
\* treats this as fatal: the app does not reach the initialized state in
\* which the screens are rendered and use the store.
C11_InitializeFailureIsFatal ==
    (mounted = "screen" /\ boot.initRaised /\ ~boot.initReturned) =>
        /\ ~boot.isInitialized
        /\ ~boot.screenMounted
        /\ pc = "idle"

\* C16: no read or write of the store is issued before an initialize() call
\* of the process has completed.
C16_NoStoreUseBeforeInitialize == ~boot.early

----------------------------------------------------------------------------
(* Properties of getDb *)

\* C17: whatever the interleaving of the getDb callers of one process, the
\* database is opened at most once and every caller that has its handle has
\* the same one.
C17_SingleConnection ==
    /\ opened <= 1
    /\ \A c1, c2 \in Callers :
          getters[c1].pc = "returned" /\ getters[c2].pc = "returned"
             => getters[c1].handle = getters[c2].handle

----------------------------------------------------------------------------
(* Properties of overlapping cache writes *)

RowsAt(key) == {r \in weather_cache : r.location = key}

BothWroteSameKey ==
    /\ \A w \in Writers : writers[w].pc = "done"
    /\ writers[1].key = writers[2].key

\* C18: after two overlapping invocations have both written the same key, the
\* cache has exactly one row for the key and its text is, whole, the text
\* written by the invocation whose write was applied last.
C18_ConcurrentWritesLastWins ==
    BothWroteSameKey =>
        /\ Cardinality(RowsAt(writers[1].key)) = 1
        /\ \A r \in RowsAt(writers[1].key) :
              r.data = CacheArgument(writers[applied[Len(applied)]].data)

\* both wrote the same key with different data, and the first write was
\* applied while the other invocation was in flight
C18_Witness ==
    /\ BothWroteSameKey
    /\ writers[1].data # writers[2].data
    /\ writers[applied[1]].overlapped

----------------------------------------------------------------------------
(* Properties of the reported outcomes *)

\* what happened in the invocation
Kind ==
    CASE inv.reported = "online" /\ inv.fetch \in FetchFailures -> "NetworkError"
      [] inv.reported = "offline" /\ inv.lookup = "miss" -> "DataUnavailable"
      [] inv.reported = "offline" /\ inv.lookup = "hit" -> "FromCache"
      [] OTHER -> "other"

\* what the invocation showed: the title of its alert, and whether it called
\* setRecommendations
Observed == [title |-> inv.alert.title, delivered |-> inv.delivered # JsUndefined]

\* what a caller concludes from what was shown
Decode(o) ==
    CASE o.title = "Error" /\ ~o.delivered -> "NetworkError"
      [] o.title = "Offline" /\ ~o.delivered -> "DataUnavailable"
      [] o.title = "" /\ o.delivered -> "FromCache"
      [] OTHER -> "other"

\* C19: a failed online fetch, an offline cache miss and a result served from
\* the cache each end with their own outcome, from which the caller can tell
\* which of the three happened; the 'Offline' outcome is shown for an offline
\* miss only, and never after a failed fetch.
C19_OutcomesDistinguishable ==
    Completed =>
        /\ Kind # "other" => Decode(Observed) = Kind
        /\ inv.alert.title = "Offline" => Kind = "DataUnavailable"
        /\ Kind = "NetworkError" => inv.alert # OfflineMessage

\* an offline miss in a later invocation, while the cache holds the answer of
\* an earlier one for other coordinates
C19_Witness ==
    /\ Completed /\ Kind = "DataUnavailable"
    /\ inv.alert = OfflineMessage
    /\ weather_cache # {}
    /\ recommendations # JsNull

----------------------------------------------------------------------------
(* Properties of the cache with the 24-hour check *)

\* the last call looked into the cache after its request had failed
FellBack == guide.op = "getCropRecommendations" /\ guide.fetch \in FetchFailures

\* C20: after a failed request, the cached entry is returned only if it is as
\* written and less than 24 hours old; an entry of 24 hours or more, a missing
\* one and an unreadable one make getCachedRecommendations give null without
\* raising, and getCropRecommendations throws the error of the request.
C20_StaleOrUnreadableIsNoData ==
    FellBack =>
        /\ ~guide.lookup.raised
        /\ guide.outcome = "returned" =>
              /\ guide.item.intact
              /\ guide.at - guide.item.writtenAt < DayMs
              /\ guide.value = guide.item.written
        /\ (~guide.item.intact \/ guide.at - guide.item.writtenAt >= DayMs) =>
              /\ guide.lookup.value = JsNull
              /\ guide.outcome = "threw"
              /\ guide.error = guide.fetch

\* the request failed exactly 24 hours after the entry was written
C20_Witness ==
    /\ FellBack
    /\ guide.item.intact /\ Truthy(guide.item.written)
    /\ guide.at - guide.item.writtenAt = DayMs
    /\ guide.outcome = "threw"

----------------------------------------------------------------------------
(* Properties of what the cache holds *)

\* the coordinates rounded to 4 decimals
Rounded(c) == <<ToFixed4(c.latitude), ToFixed4(c.longitude)>>

\* a step that changes the cache is the write of an invocation that was
\* reported online and whose request succeeded, without any alert before it:
\* one row, under the rounded coordinates of the request, holding the
\* response; the rows it replaces had that key
WriteAfterSuccess ==
    weather_cache' # weather_cache =>
        /\ inv.reported = "online" /\ inv.fetch = "ok" /\ inv.hasLoc
        /\ inv.alert = NoAlert /\ inv.lookup = "none"
        /\ Cardinality(weather_cache' \ weather_cache) = 1
        /\ \A r \in weather_cache' \ weather_cache :
              /\ r.location = Rounded(inv.loc)
              /\ JSONparse(r.data) = [ok |-> TRUE, val |-> inv.response]
        /\ \A r \in weather_cache \ weather_cache' : r.location = Rounded(inv.loc)

\* C21: the cache, empty at the start, is written only after a successful
\* fetch, with the result of that fetch under the key of its coordinates;
\* never on permission denial, on fetch failure or on the offline path.  So
\* every entry holds what a successful fetch returned for coordinates that
\* round to its key.
C21_CacheWrittenOnlyAfterSuccess == [][WriteAfterSuccess]_vars

\* two entries are cached and the last invocation, whose request failed, left
\* both as they were
C21_Witness ==
    /\ Completed /\ inv.fetch \in FetchFailures
    /\ Cardinality(weather_cache) = 2
    /\ weather_cache = inv.cacheAtStart

----------------------------------------------------------------------------
(* Properties of an interrupted migration *)

\* C22: when an initialize() that began on a user_profile table of the old
\* shape was cut off after one of its statements, the next initialize() that
\* runs to completion leaves user_profile in the new shape with all the rows
\* the table had.
C22_InterruptedMigrationLosesNothing ==
    (cut.happened /\ cut.oldShape /\ ipc = "done") =>
        /\ schema.user_profile = NewUserCols
        /\ CopiedRows(cut.before) \subseteq user_profile

----------------------------------------------------------------------------
(* Properties of overlapping initialize() calls *)

BothFinished == \A c \in Initializers : overlap.call[c].pc \in {"returned", "raised"}

\* C23: when two initialize() calls overlap on a store of the old shape, then
\* after both have finished, whether they returned or raised, user_profile
\* exists in the new shape and holds every row it had.
C23_OverlappingInitializeKeepsRows ==
    BothFinished =>
        /\ schema.user_profile = NewUserCols
        /\ CopiedRows(overlap.original) \subseteq user_profile

----------------------------------------------------------------------------
(* Properties of the loading flag *)

\* C24: every invocation of getRecommendations sets `loading` back to false
\* in the end, whatever the connectivity check, the permission request, the
\* position lookup, the request and the cache calls do.
C24_LoadingEventuallyReset == loading ~> ~loading

----------------------------------------------------------------------------
(* Properties of the auth context *)

AllAuthCallsDone == \A c \in AuthCalls : auth.call[c].pc \in {"idle", "done"}

\* C25: whatever the interleaving of signIn, signOut and restoreToken, once
\* every call has completed the userToken state is non-null only if the
\* persisted 'userToken' item exists and equals it.
C25_TokenMatchesPersisted ==
    (AllAuthCallsDone /\ auth.userToken # NoToken) => auth.item = auth.userToken

\* C26: the screens call signIn only for a number of ten characters that has
\* a user_profile row at that moment, on login only after loginUser found a
\* profile for it, on registration only after createUserProfile succeeded; and
\* userToken is set to nothing but a number signIn was called for.
C26_SignInOnlyForRegistered ==
    /\ \A s \in auth.signIns :
         Len(s.mobileNumber) = 10 /\ s.rowExists /\ s.found
    /\ auth.userToken # NoToken =>
         \E s \in auth.signIns : s.mobileNumber = auth.userToken

\* both screens have signed a user in, and a lookup has failed meanwhile
C26_Witness ==
    /\ \E s \in auth.signIns : s.screen = "login"
    /\ \E s \in auth.signIns : s.screen = "register"
    /\ auth.userToken # NoToken
    /\ forms.alert = "noAccountFound"

----------------------------------------------------------------------------
(* Properties of a repeated registration *)

\* the step is a createUserProfile for a number that had a row
RepeatRegistration ==
    /\ storeOps' = storeOps + 1
    /\ lastCall'.op = "createUserProfile"
    /\ lastCall'.had

\* C27: createUserProfile for a number that is already registered leaves the
\* id of that user's row and its stored language as they were.
C27_RepeatRegistrationKeepsIdAndLanguage ==
    [][RepeatRegistration =>
         \E old \in user_profile, new \in user_profile' :
             /\ old.phone_number = Bind(lastCall'.user.mobileNumber)
             /\ new.phone_number = old.phone_number
             /\ new.id = old.id
             /\ new.language = old.language]_vars

----------------------------------------------------------------------------
(* Properties of the data set and of the rule-based recommendation *)

DatasetEnded == dataset.pc \in {"returned", "failed"}

\* C28: when the weather request fails (and the soil request does not),
\* fetchDataForML still returns a dataset, with fallback_weather = true.
C28_WeatherFailureFallsBack ==
    (DatasetEnded /\ dataset.weather \in Rejections /\ dataset.soil = "ok")
        => (dataset.pc = "returned" /\ dataset.fallback_weather)

\* the arguments are what the contract asks for: numbers, the latitude in
\* [-90, 90], the longitude in [-180, 180], a positive number of acres
IsNumber(x) == x.kind = "number"

ValidArguments ==
    /\ IsNumber(dataset.lat) /\ dataset.lat.value >= -90 /\ dataset.lat.value <= 90
    /\ IsNumber(dataset.lon) /\ dataset.lon.value >= -180 /\ dataset.lon.value <= 180
    /\ IsNumber(dataset.acres) /\ dataset.acres.value > 0

ValidationErrors ==
    { "Invalid coordinates: lat and lon must be numbers",
      "Invalid latitude: must be between -90 and 90",
      "Invalid longitude: must be between -180 and 180",
      "Invalid acres: must be a positive number" }

CriteriaMet(crop, features) ==
    Cardinality(
      { k \in {"soil", "season", "temperature", "area"} :
          CASE k = "soil" -> features.soilType \in crop.suitableSoils
            [] k = "season" -> features.season \in crop.seasons
            [] k = "temperature" -> /\ features.temperature >= crop.tempRange[1]
                                    /\ features.temperature <= crop.tempRange[2]
            [] OTHER -> features.area >= crop.minArea })

LinearScore(crop, features) ==
    (IF features.soilType \in crop.suitableSoils THEN 3 ELSE 0)
    + (IF features.season \in crop.seasons THEN 3 ELSE 0)
    + (IF /\ features.temperature >= crop.tempRange[1]
          /\ features.temperature <= crop.tempRange[2] THEN 2 ELSE 0)
    + (IF features.area >= crop.minArea THEN 2 ELSE 0)

CropNamed(name) == CHOOSE crop \in {CropDatabase[i] : i \in DOMAIN CropDatabase} :
                       crop.name = name

\* C29: recommendCrops returns the crops of the table that meet at least
\* three of the four criteria, each once and with its linear score (3, 3, 2
\* and 2 tenths), at most 5 of them, in non-increasing order of score.
C29_RecommendationsAreTheHighScores ==
    advice.called =>
        LET recs == advice.recommendations
            returned == {recs[i].crop : i \in DOMAIN recs}
            meeting == {CropDatabase[i].name : i \in
                          {j \in DOMAIN CropDatabase :
                              CriteriaMet(CropDatabase[j], advice.features) >= 3}}
        IN  /\ Len(recs) <= 5
            /\ Cardinality(returned) = Len(recs)
            /\ returned \subseteq meeting
            /\ Cardinality(meeting) <= 5 => returned = meeting
            /\ \A i \in DOMAIN recs :
                  /\ recs[i].suitabilityScore = LinearScore(CropNamed(recs[i].crop),
                                                            advice.features)
                  /\ recs[i].suitabilityScore > 6
            /\ \A i \in 1 .. (Len(recs) - 1) :
                  recs[i].suitabilityScore >= recs[i + 1].suitabilityScore

\* three crops were returned out of table order, and the fourth was left out
C29_Witness ==
    /\ advice.called
    /\ Len(advice.recommendations) = 3
    /\ advice.recommendations[1].crop = "Rice"
    /\ advice.recommendations[2].crop = "Cotton"
    /\ advice.recommendations[3].crop = "Wheat"

====
